---- MODULE Spec2Model ----
(***************************************************************************)
(* Model of the teaching notebooks of markschat/ml_exercises:              *)
(*   - the causal-model notebook (src/unnamed/part_001): sample_data, the  *)
(*     synthetic structural-causal-model generator, and test_model;        *)
(*   - the hard-drive-failure notebook (src/unnamed/part_000): eval_clf;   *)
(*   - the MNIST notebook (src/notebooks/5_mnist_torch.ipynb): eval_net,   *)
(*     the network modules LinNN, FFNN, CNN and the logistic regression.   *)
(*                                                                         *)
(* Numbers.  Floating-point values are held in exact fixed point: a value  *)
(* v of the program is the integer v * Unit.  Coefficients of the          *)
(* generating equations are held in tenths (0.8 is 8, -2 is -20).  With    *)
(* Unit = 20 every product the generator forms is exact, so the model      *)
(* leaves out binary rounding only.  A standard-normal draw is one of the  *)
(* whole numbers -2..2.                                                    *)
(*                                                                         *)
(* The process-wide numpy generator is a small linear congruential         *)
(* generator: np.random.seed(s) sets its state from s alone, every value   *)
(* drawn advances it.                                                      *)
(***************************************************************************)
EXTENDS Integers, Sequences, FiniteSets, TLC

VARIABLES
    nb,        \* the notebook (kernel) that is running: "causal", "hdf", "mnist"
    rng,       \* state of the process-wide numpy random generator
    ret,       \* outcome of the latest sample_data call
    prev,      \* outcome of one remembered earlier sample_data call (history)
    between,   \* the generator was used by something else since prev was taken
    df_train,  \* causal notebook: global df_train
    df_test,   \* causal notebook: global df_test
    data,      \* hdf / mnist notebook: globals X_train, y_train, X_test, y_test
    clf,       \* the model of the latest harness call (hdf notebook: global clf)
    out,       \* what the latest harness call printed
    calls,     \* the calls the latest harness call made on its model
    raised,    \* the exception the latest operation raised to its caller, "" if none
    last       \* the latest operation

vars == <<nb, rng, ret, prev, between, df_train, df_test, data, clf, out, calls, raised, last>>

----------------------------------------------------------------------------
(* Bounds of the model *)

RngMod == 4         \* number of states of the random generator
MaxN == 2           \* largest row count n passed to sample_data
MaxSeed == 2        \* integer seeds are 1..MaxSeed

Unit == 2 * 10      \* fixed point: the program's 1.0

----------------------------------------------------------------------------
(* The process-wide random generator (numpy), used by sample_data *)

NoSeed == [given |-> FALSE, v |-> 0]           \* seed=None
IntSeed(s) == [given |-> TRUE, v |-> s]        \* seed=s

RngStates == 0 .. (RngMod - 1)

\* np.random.seed(s) with an integer s: the state is a function of s alone
SeedState(s) == (7 * s + 1) % RngMod

\* np.random.seed(seed): with seed=None the state is taken from fresh OS
\* entropy, whatever the state was
NpRandomSeed(seed, entropy) == IF seed.given THEN SeedState(seed.v) ELSE entropy

\* one standard-normal value: the state advances, the value is read from it
NextState(g) == (5 * g + 3) % RngMod
DrawValue(g) == (NextState(g) % 5) - 2

RECURSIVE DrawSeq(_, _)
\* the k values np.random.randn(k) returns for k >= 0, from state g
DrawSeq(g, k) == IF k <= 0 THEN <<>> ELSE <<DrawValue(g)>> \o DrawSeq(NextState(g), k - 1)

RECURSIVE Advance(_, _)
\* the state after k values were drawn from state g
Advance(g, k) == IF k <= 0 THEN g ELSE Advance(NextState(g), k - 1)

\* randn that takes a negative dimension for an empty one
RandnNoCheck(g, n) == [ok |-> TRUE, rng |-> Advance(g, n), vals |-> DrawSeq(g, n)]

\* np.random.randn(n): a negative dimension raises ValueError and draws nothing
Randn(g, n) ==
    IF n < 0
    THEN [ok |-> FALSE, rng |-> g, vals |-> <<>>]
    ELSE [ok |-> TRUE, rng |-> Advance(g, n), vals |-> DrawSeq(g, n)]

----------------------------------------------------------------------------
(* sample_data: the generating equations *)

Term(c, v) == [c |-> c, v |-> v]
Eq(var, terms, noise) == [var |-> var, terms |-> terms, noise |-> noise]

\* Equations with a forward reference: X also reads D, assigned two statements later
EquationsForwardRef(data_drift, concept_drift) == <<
    Eq("C", <<>>, 10),
    Eq("A", <<>>, 8),
    Eq("K", <<Term(10, "A")>>, 1),
    Eq("X", <<Term(10, "C"), Term(-20, "A"), Term(10, "D")>>, IF data_drift THEN 20 ELSE 2),
    Eq("F", <<Term(30, "X")>>, 8),
    Eq("D", <<Term(IF concept_drift THEN 20 ELSE -20, "X")>>, 5),
    Eq("G", <<Term(10, "D")>>, 5),
    Eq("Y", <<Term(20, "K"), Term(-10, "D")>>, 2),
    Eq("H", <<Term(5, "Y")>>, IF data_drift THEN 10 ELSE 1) >>

\* Equations whose data drift also reaches F and scales the noise of H by 5
EquationsWideDataDrift(data_drift, concept_drift) == <<
    Eq("C", <<>>, 10),
    Eq("A", <<>>, 8),
    Eq("K", <<Term(10, "A")>>, 1),
    Eq("X", <<Term(10, "C"), Term(-20, "A")>>, IF data_drift THEN 20 ELSE 2),
    Eq("F", <<Term(30, "X")>>, IF data_drift THEN 80 ELSE 8),
    Eq("D", <<Term(IF concept_drift THEN 20 ELSE -20, "X")>>, 5),
    Eq("G", <<Term(10, "D")>>, 5),
    Eq("Y", <<Term(20, "K"), Term(-10, "D")>>, 2),
    Eq("H", <<Term(5, "Y")>>, IF data_drift THEN 5 ELSE 1) >>

\* Equations whose concept drift changes the coefficient of Y on D instead of
\* the coefficient of D on X
EquationsConceptDriftInY(data_drift, concept_drift) == <<
    Eq("C", <<>>, 10),
    Eq("A", <<>>, 8),
    Eq("K", <<Term(10, "A")>>, 1),
    Eq("X", <<Term(10, "C"), Term(-20, "A")>>, IF data_drift THEN 20 ELSE 2),
    Eq("F", <<Term(30, "X")>>, 8),
    Eq("D", <<Term(-20, "X")>>, 5),
    Eq("G", <<Term(10, "D")>>, 5),
    Eq("Y", <<Term(20, "K"), Term(IF concept_drift THEN 10 ELSE -10, "D")>>, 2),
    Eq("H", <<Term(5, "Y")>>, IF data_drift THEN 10 ELSE 1) >>

\* Equations whose data drift makes the noise of X five times as large (1.0)
EquationsDataDriftFiveFold(data_drift, concept_drift) == <<
    Eq("C", <<>>, 10),
    Eq("A", <<>>, 8),
    Eq("K", <<Term(10, "A")>>, 1),
    Eq("X", <<Term(10, "C"), Term(-20, "A")>>, IF data_drift THEN 10 ELSE 2),
    Eq("F", <<Term(30, "X")>>, 8),
    Eq("D", <<Term(IF concept_drift THEN 20 ELSE -20, "X")>>, 5),
    Eq("G", <<Term(10, "D")>>, 5),
    Eq("Y", <<Term(20, "K"), Term(-10, "D")>>, 2),
    Eq("H", <<Term(5, "Y")>>, IF data_drift THEN 10 ELSE 1) >>

\* Equations whose concept drift sets the coefficient of D on X to +1
EquationsConceptDriftUnitSlope(data_drift, concept_drift) == <<
    Eq("C", <<>>, 10),
    Eq("A", <<>>, 8),
    Eq("K", <<Term(10, "A")>>, 1),
    Eq("X", <<Term(10, "C"), Term(-20, "A")>>, IF data_drift THEN 20 ELSE 2),
    Eq("F", <<Term(30, "X")>>, 8),
    Eq("D", <<Term(IF concept_drift THEN 10 ELSE -20, "X")>>, 5),
    Eq("G", <<Term(10, "D")>>, 5),
    Eq("Y", <<Term(20, "K"), Term(-10, "D")>>, 2),
    Eq("H", <<Term(5, "Y")>>, IF data_drift THEN 10 ELSE 1) >>

\* Equations whose data drift also halves the coefficient of D on X
EquationsDataDriftInD(data_drift, concept_drift) == <<
    Eq("C", <<>>, 10),
    Eq("A", <<>>, 8),
    Eq("K", <<Term(10, "A")>>, 1),
    Eq("X", <<Term(10, "C"), Term(-20, "A")>>, IF data_drift THEN 20 ELSE 2),
    Eq("F", <<Term(30, "X")>>, 8),
    Eq("D", <<Term(IF concept_drift THEN 20 ELSE (IF data_drift THEN -10 ELSE -20), "X")>>, 5),
    Eq("G", <<Term(10, "D")>>, 5),
    Eq("Y", <<Term(20, "K"), Term(-10, "D")>>, 2),
    Eq("H", <<Term(5, "Y")>>, IF data_drift THEN 10 ELSE 1) >>

\* The nine assignments of sample_data in statement order.  Each is
\*   var = sum of (c/10) * v over terms  +  (noise/10) * np.random.randn(n)
\* with c and noise in tenths.
Equations(data_drift, concept_drift) == <<
    Eq("C", <<>>, 10),                                      \* C = randn
    Eq("A", <<>>, 8),                                       \* A = 0.8*randn
    Eq("K", <<Term(10, "A")>>, 1),                          \* K = A + 0.1*randn
    Eq("X", <<Term(10, "C"), Term(-20, "A")>>,              \* X = C - 2*A + (2.0 | 0.2)*randn
       IF data_drift THEN 20 ELSE 2),
    Eq("F", <<Term(30, "X")>>, 8),                          \* F = 3*X + 0.8*randn
    Eq("D", <<Term(IF concept_drift THEN 20 ELSE -20, "X")>>, 5),  \* D = (2 | -2)*X + 0.5*randn
    Eq("G", <<Term(10, "D")>>, 5),                          \* G = D + 0.5*randn
    Eq("Y", <<Term(20, "K"), Term(-10, "D")>>, 2),          \* Y = 2*K - D + 0.2*randn
    Eq("H", <<Term(5, "Y")>>,                               \* H = 0.5*Y + (1.0 | 0.1)*randn
       IF data_drift THEN 10 ELSE 1) >>

\* np.vstack([C, A, K, X, F, D, G, Y, H]).T: the variables stacked, in this order
StackOrder == <<"C", "A", "K", "X", "F", "D", "G", "Y", "H">>

\* columns=["C", "A", "K", "X", "F", "D", "G", "Y", "H"]
ColumnNames == <<"C", "A", "K", "X", "F", "D", "G", "Y", "H">>

EmptyEnv == [v \in {} |-> <<>>]

RECURSIVE SumTerms(_, _, _, _)
\* the linear part of an equation at row j, terms i..Len(terms)
SumTerms(terms, i, env, j) ==
    IF i > Len(terms) THEN 0
    ELSE (terms[i].c * env[terms[i].v][j]) \div 10 + SumTerms(terms, i + 1, env, j)

\* the variables an equation reads
Reads(eq) == {eq.terms[i].v : i \in 1 .. Len(eq.terms)}

RECURSIVE Column(_, _, _, _, _)
\* rows j..n of the array an equation assigns: the linear part plus the
\* scaled noise vector vals
Column(eq, env, vals, j, n) ==
    IF j > n THEN <<>>
    ELSE <<SumTerms(eq.terms, 1, env, j) + (eq.noise * vals[j] * Unit) \div 10>>
         \o Column(eq, env, vals, j + 1, n)

RECURSIVE RunEquationsOneDraw(_, _, _, _, _)
\* the statements run with every randn call reading the same n values: the
\* generator is advanced once at the end
RunEquationsOneDraw(eqs, i, n, g, env) ==
    IF i > Len(eqs) THEN [error |-> "", rng |-> Advance(g, 9 * n), env |-> env]
    ELSE LET eq == eqs[i]
             r  == Randn(g, n)
         IN  IF ~(Reads(eq) \subseteq DOMAIN env)
             THEN [error |-> "NameError", rng |-> g, env |-> env]
             ELSE IF ~r.ok
             THEN [error |-> "ValueError", rng |-> r.rng, env |-> env]
             ELSE RunEquationsOneDraw(eqs, i + 1, n, g,
                                      (eq.var :> Column(eq, env, r.vals, 1, n)) @@ env)

RECURSIVE RunEquations(_, _, _, _, _)
\* Executes statements i..Len(eqs) of sample_data for n rows from generator
\* state g with the local variables env.  A statement that reads a name not
\* yet assigned raises NameError; a negative n makes randn raise ValueError.
RunEquations(eqs, i, n, g, env) ==
    IF i > Len(eqs) THEN [error |-> "", rng |-> g, env |-> env]
    ELSE LET eq == eqs[i]
             r  == Randn(g, n)
         IN  IF ~(Reads(eq) \subseteq DOMAIN env)
             THEN [error |-> "NameError", rng |-> g, env |-> env]
             ELSE IF ~r.ok
             THEN [error |-> "ValueError", rng |-> r.rng, env |-> env]
             ELSE RunEquations(eqs, i + 1, n, r.rng,
                               (eq.var :> Column(eq, env, r.vals, 1, n)) @@ env)

NoTable == [columns |-> <<>>, rows |-> <<>>]

\* the table without the transposition: one row per stacked variable
DataFrameNoTranspose(env, n) ==
    [columns |-> ColumnNames,
     rows    |-> [c \in 1 .. Len(StackOrder) |-> env[StackOrder[c]]]]

\* pd.DataFrame(np.vstack([...]).T, columns=[...]): row j holds the j-th value
\* of each stacked variable
DataFrame(env, n) ==
    [columns |-> ColumnNames,
     rows    |-> [j \in 1 .. n |-> [c \in 1 .. Len(StackOrder) |-> env[StackOrder[c]][j]]]]

\* The body of sample_data after the seeding statement, from generator state g:
\* the nine assignments, then the table.  (Held as a function so that each
\* combination of arguments is computed once.)
Body == [g \in RngStates, n \in (0 - 1) .. MaxN, data_drift \in BOOLEAN, concept_drift \in BOOLEAN |->
    LET r == RunEquations(Equations(data_drift, concept_drift), 1, n, g, EmptyEnv)
    IN  IF r.error # ""
        THEN [kind |-> "error", error |-> r.error, rng |-> r.rng, table |-> NoTable]
        ELSE [kind |-> "table", error |-> "", rng |-> r.rng, table |-> DataFrame(r.env, n)]]

\* sample_data(seed, n, data_drift, concept_drift), run with the process-wide
\* generator in state g: the generator state it leaves, and a table or an error
SampleDataSeeded(g, seed, n, data_drift, concept_drift, entropy) ==
    Body[NpRandomSeed(seed, entropy), n, data_drift, concept_drift]

\* the same without the np.random.seed(seed) statement
SampleDataUnseeded(g, seed, n, data_drift, concept_drift, entropy) ==
    Body[g, n, data_drift, concept_drift]

\* the same, with the generator put back as it was found before returning
SampleDataRestoring(g, seed, n, data_drift, concept_drift, entropy) ==
    [Body[NpRandomSeed(seed, entropy), n, data_drift, concept_drift] EXCEPT !.rng = g]

sample_data(g, seed, n, data_drift, concept_drift, entropy) ==
    SampleDataSeeded(g, seed, n, data_drift, concept_drift, entropy)

----------------------------------------------------------------------------
(* The causal notebook, generator side *)

SeedArgs == {NoSeed} \cup {IntSeed(s) : s \in 1 .. MaxSeed}
NArgs == (0 - 1) .. MaxN

Args(seed, n, dd, cd) == [seed |-> seed, n |-> n, data_drift |-> dd, concept_drift |-> cd]

NoCall == [kind |-> "none", error |-> "", table |-> NoTable, args |-> Args(NoSeed, 0, FALSE, FALSE)]

Outcome(r, a) == [kind |-> r.kind, error |-> r.error, table |-> r.table, args |-> a]

\* A cell calls sample_data(seed, n, data_drift, concept_drift).  The history
\* variable prev keeps the outcome of the first call made with an integer seed.
SampleData ==
    /\ nb = "causal"
    /\ \E seed \in SeedArgs, n \in NArgs, dd \in BOOLEAN, cd \in BOOLEAN, e \in RngStates :
         LET r == sample_data(rng, seed, n, dd, cd, e)
             o == Outcome(r, Args(seed, n, dd, cd))
         IN  /\ (seed.given => e = 0)
             /\ rng' = r.rng
             /\ ret' = o
             /\ raised' = r.error
             /\ IF prev.kind = "none"
                THEN /\ prev' = (IF seed.given THEN o ELSE prev)
                     /\ between' = FALSE
                ELSE /\ prev' = prev
                     /\ between' = (between \/ o.args # prev.args)
    /\ last' = "sample_data"
    /\ UNCHANGED <<nb, df_train, df_test, data, clf, out, calls>>

\* Any other code of the process uses the process-wide generator (draws from
\* it or seeds it): its state becomes any state.
OtherRngUse ==
    /\ nb = "causal"
    /\ \E g \in RngStates : rng' = g
    /\ between' = (prev.kind # "none")
    /\ raised' = ""
    /\ last' = "other_rng_use"
    /\ UNCHANGED <<nb, ret, prev, df_train, df_test, data, clf, out, calls>>

----------------------------------------------------------------------------
(* sample_data called with any objects as drift flags *)

\* A Python object passed as data_drift or concept_drift: its type and a
\* number (a bool as 0 or 1, an int as itself, a str by its length, an ndarray
\* by its number of elements)
PyBool(b) == [type |-> "bool", v |-> IF b THEN 1 ELSE 0]
PyInt(i) == [type |-> "int", v |-> i]
PyStr(len) == [type |-> "str", v |-> len]
PyNone == [type |-> "NoneType", v |-> 0]
PyArray(size) == [type |-> "ndarray", v |-> size]

\* the objects tried as flags: True, False, 0, a string of five characters
\* ('False'), None, an array of two elements
FlagValues == {PyBool(TRUE), PyBool(FALSE), PyInt(0), PyStr(5), PyNone, PyArray(2)}

\* `if flag:` can test the object: every object here has a truth value but
\* an array of more than one element, for which the test raises ValueError
HasTruth(v) == v.type # "ndarray" \/ v.v <= 1

\* the truth value `if flag:` tests: a number is true when not zero, a
\* string or an array when not empty, None never
Truth(v) == v.type # "NoneType" /\ v.v # 0

FlagError(g) == [kind |-> "error", error |-> "ValueError", rng |-> g, table |-> NoTable]

\* sample_data that accepts only True and False as flags
sample_data_typed(g, seed, n, data_drift, concept_drift, entropy) ==
    IF data_drift.type # "bool" \/ concept_drift.type # "bool"
    THEN [kind |-> "error", error |-> "TypeError", rng |-> g, table |-> NoTable]
    ELSE sample_data(g, seed, n, Truth(data_drift), Truth(concept_drift), entropy)

\* sample_data(seed, n, data_drift, concept_drift) with any objects as flags.
\* The function never looks at a flag's type: `if data_drift:` (after the
\* draws of C, A, K) and `if concept_drift:` (after the draws of X and F)
\* test the truth value, and so does the second `if data_drift:`.
sample_data_flags(g, seed, n, data_drift, concept_drift, entropy) ==
    LET s == NpRandomSeed(seed, entropy)
    IN  IF n < 0 THEN sample_data(g, seed, n, FALSE, FALSE, entropy)
        ELSE IF ~HasTruth(data_drift) THEN FlagError(Advance(s, 3 * n))
        ELSE IF ~HasTruth(concept_drift) THEN FlagError(Advance(s, 5 * n))
        ELSE sample_data(g, seed, n, Truth(data_drift), Truth(concept_drift), entropy)

\* A cell calls sample_data with any objects as flags.
SampleDataFlags ==
    /\ nb = "causal"
    /\ \E seed \in SeedArgs, n \in NArgs, dd \in FlagValues, cd \in FlagValues :
       \E e \in (IF seed.given THEN {0} ELSE RngStates) :
         LET r == sample_data_flags(rng, seed, n, dd, cd, e)
         IN  /\ rng' = r.rng
             /\ ret' = Outcome(r, Args(seed, n, dd, cd))
             /\ raised' = r.error
    /\ last' = "sample_data"
    /\ UNCHANGED <<nb, prev, between, df_train, df_test, data, clf, out, calls>>

----------------------------------------------------------------------------

NoData == [X_train |-> <<>>, y_train |-> <<>>, X_test |-> <<>>, y_test |-> <<>>]
NoClf == [kind |-> "none", fitted |-> FALSE, majority |-> 0, nfit |-> 0]

Init ==
    /\ nb = "causal"
    /\ rng \in RngStates
    /\ ret = NoCall
    /\ prev = NoCall
    /\ between = FALSE
    /\ df_train = NoTable
    /\ df_test = NoTable
    /\ data = NoData
    /\ clf = NoClf
    /\ out = <<>>
    /\ calls = <<>>
    /\ raised = ""
    /\ last = "start"

Next == SampleData \/ OtherRngUse

Spec == Init /\ [][Next]_vars

NextFlags == SampleDataFlags

FlagSpec == Init /\ [][NextFlags]_vars

----------------------------------------------------------------------------
(* Numbers as the harnesses print them *)

\* A float the libraries return is held as an exact fraction <<num, den>>, den > 0.
Rat(n, d) == <<n, d>>
RatAdd(a, b) == <<a[1] * b[2] + b[1] * a[2], a[2] * b[2]>>
Abs(x) == IF x < 0 THEN 0 - x ELSE x

RECURSIVE Pow10(_)
Pow10(k) == IF k <= 0 THEN 1 ELSE 10 * Pow10(k - 1)

RECURSIVE DigitsOf(_, _)
\* the k decimal digits of v, zero-padded on the left
DigitsOf(v, k) == IF k <= 0 THEN <<>> ELSE DigitsOf(v \div 10, k - 1) \o <<v % 10>>

\* n/d rounded to the nearest whole number, ties to even (n >= 0, d > 0)
RoundHalfEven(n, d) ==
    LET q == n \div d
        r == n % d
    IN  IF 2 * r > d \/ (2 * r = d /\ q % 2 = 1) THEN q + 1 ELSE q

\* format(x, ".<digits>f"): sign, whole part, and exactly <digits> digits after
\* the point
FormatFixed(q, digits) ==
    LET scaled == RoundHalfEven(Abs(q[1]) * Pow10(digits), q[2])
    IN  [neg  |-> q[1] < 0,
         int  |-> scaled \div Pow10(digits),
         frac |-> DigitsOf(scaled % Pow10(digits), digits)]

\* a format that keeps two digits
FmtTwoDigits(q) == FormatFixed(q, 2)

\* the format specs ":.3f" of eval_clf and ":0.3f" of test_model
Fmt3(q) == FormatFixed(q, 3)

\* the most digits after the point Python prints for a float below 10
ReprDigits == 16

RECURSIVE LongDiv(_, _, _)
\* the first k digits after the point of rem/den (0 <= rem < den)
LongDiv(rem, den, k) ==
    IF k <= 0 THEN <<>>
    ELSE <<(rem * 10) \div den>> \o LongDiv((rem * 10) % den, den, k - 1)

RECURSIVE StripZeros(_)
\* trailing zeros dropped, one digit always kept
StripZeros(ds) ==
    IF Len(ds) > 1 /\ ds[Len(ds)] = 0 THEN StripZeros(SubSeq(ds, 1, Len(ds) - 1)) ELSE ds

\* print(x) of a float: the shortest digits that read back as x; here the
\* digits of the exact quotient, at most ReprDigits of them, without trailing
\* zeros (0.5, 1.0, 0.3333333333333333)
ReprFloat(q) ==
    [neg  |-> q[1] < 0,
     int  |-> Abs(q[1]) \div q[2],
     frac |-> StripZeros(LongDiv(Abs(q[1]) % q[2], q[2], ReprDigits))]

\* one number of a report: what it is, what it is computed on, its printed form
Item(what, on, num) == [what |-> what, on |-> on, num |-> num]
\* a printed heading: no number
Heading(text) == [what |-> "heading", on |-> text, num |-> [neg |-> FALSE, int |-> 0, frac |-> <<>>]]
Call(method, on) == [method |-> method, on |-> on]

----------------------------------------------------------------------------
(* The hard-drive notebook: DummyClassifier and eval_clf *)

MaxRows == 3                 \* most rows of a train or a test split
Labels == {0, 1}             \* the binary failure label

Count(y, c) == Cardinality({i \in 1 .. Len(y) : y[i] = c})
ClassesOf(y) == {y[i] : i \in 1 .. Len(y)}

\* DummyClassifier(strategy="most_frequent"), not fitted yet
NewDummy == [kind |-> "DummyClassifier", fitted |-> FALSE, majority |-> 0, nfit |-> 0]

\* clf.fit(X, y): the most frequent class of y, the smallest one on a tie
Fit(c, X, y) ==
    [c EXCEPT !.fitted = TRUE,
              !.nfit = @ + 1,
              !.majority = CHOOSE m \in ClassesOf(y) :
                              \A k \in ClassesOf(y) :
                                  Count(y, m) > Count(y, k) \/ (Count(y, m) = Count(y, k) /\ m <= k)]

\* clf.predict(X): the majority class for every row
Predict(c, X) == [i \in 1 .. Len(X) |-> c.majority]

\* accuracy: the fraction of rows whose prediction equals the label
Accuracy(y_true, y_pred) ==
    Rat(Cardinality({i \in 1 .. Len(y_true) : y_pred[i] = y_true[i]}), Len(y_true))

\* clf.score(X, y): accuracy of clf.predict(X)
Score(c, X, y) == Accuracy(y, Predict(c, X))

\* recall of class k: the fraction of the rows of class k predicted as k
Recall(y_true, y_pred, k) ==
    Rat(Cardinality({i \in 1 .. Len(y_true) : y_true[i] = k /\ y_pred[i] = k}), Count(y_true, k))

RECURSIVE SumRecall(_, _, _)
SumRecall(y_true, y_pred, classes) ==
    IF classes = {} THEN Rat(0, 1)
    ELSE LET k == CHOOSE c \in classes : TRUE
         IN  RatAdd(Recall(y_true, y_pred, k), SumRecall(y_true, y_pred, classes \ {k}))

\* balanced_accuracy_score(y_true, y_pred): the unweighted mean, over the
\* classes present in y_true, of the recall of each
balanced_accuracy_score(y_true, y_pred) ==
    LET sum == SumRecall(y_true, y_pred, ClassesOf(y_true))
    IN  Rat(sum[1], sum[2] * Cardinality(ClassesOf(y_true)))

\* eval_clf that refits the classifier on the training data before scoring
eval_clf_refit(c, X_train, y_train, X_test, y_test) ==
    LET c2 == Fit(c, X_train, y_train)
    IN  [clf   |-> c2,
         error |-> "",
         calls |-> <<Call("fit", "train"), Call("score", "train"), Call("score", "test"),
                     Call("predict", "train"), Call("predict", "test")>>,
         out   |-> <<Item("accuracy", "train", Fmt3(Score(c2, X_train, y_train))),
                     Item("accuracy", "test", Fmt3(Score(c2, X_test, y_test))),
                     Item("balanced accuracy", "train",
                          Fmt3(balanced_accuracy_score(y_train, Predict(c2, X_train)))),
                     Item("balanced accuracy", "test",
                          Fmt3(balanced_accuracy_score(y_test, Predict(c2, X_test))))>>]

\* eval_clf that leaves out the balanced accuracy on the training data
eval_clf_three(c, X_train, y_train, X_test, y_test) ==
    [clf   |-> c,
     error |-> "",
     calls |-> <<Call("score", "train"), Call("score", "test"), Call("predict", "test")>>,
     out   |-> <<Item("accuracy", "train", Fmt3(Score(c, X_train, y_train))),
                 Item("accuracy", "test", Fmt3(Score(c, X_test, y_test))),
                 Item("balanced accuracy", "test",
                      Fmt3(balanced_accuracy_score(y_test, Predict(c, X_test))))>>]

\* the attributes a model object has: an estimator of the library has all
\* three, any other object the ones it was made with
Attrs(c) == IF c.kind = "object" THEN c.attrs ELSE {"fit", "score", "predict"}

\* the methods of a model that raise when called
Raises(c) == IF c.kind = "object" THEN c.raises ELSE {}

Failed(e) == [error |-> e, val |-> Rat(0, 1)]
Returned(v) == [error |-> "", val |-> v]

\* clf.predict that stands in a row of zeros for a model without predict
PredictCallFallback(c, X) ==
    IF "predict" \notin Attrs(c) THEN Returned([i \in 1 .. Len(X) |-> 0])
    ELSE IF "predict" \in Raises(c) THEN Failed("RuntimeError")
    ELSE IF ~c.fitted THEN Failed("NotFittedError")
    ELSE Returned(Predict(c, X))

\* the expression clf.predict(X): AttributeError when the object has no
\* predict, the method's own error when it raises, NotFittedError from an
\* estimator that was not fitted, else one prediction per row of X
PredictCall(c, X) ==
    IF "predict" \notin Attrs(c) THEN Failed("AttributeError")
    ELSE IF "predict" \in Raises(c) THEN Failed("RuntimeError")
    ELSE IF ~c.fitted THEN Failed("NotFittedError")
    ELSE Returned(Predict(c, X))

\* the accuracy over the rows both arrays have
AccuracyTruncated(y_true, y_pred) ==
    LET m == IF Len(y_true) < Len(y_pred) THEN Len(y_true) ELSE Len(y_pred)
    IN  Rat(Cardinality({i \in 1 .. m : y_pred[i] = y_true[i]}), m)

\* clf.score that compares as many rows as both arrays have
ScoreCallTruncating(c, X, y) ==
    IF "score" \notin Attrs(c) THEN Failed("AttributeError")
    ELSE IF "score" \in Raises(c) THEN Failed("RuntimeError")
    ELSE IF ~c.fitted THEN Failed("NotFittedError")
    ELSE Returned(AccuracyTruncated(y, Predict(c, X)))

\* the expression clf.score(X, y): AttributeError when the object has no
\* score; else the accuracy of the model's predictions for X against y, which
\* the library refuses with ValueError ("inconsistent numbers of samples")
\* when X and y differ in their number of rows
ScoreCall(c, X, y) ==
    IF "score" \notin Attrs(c) THEN Failed("AttributeError")
    ELSE IF "score" \in Raises(c) THEN Failed("RuntimeError")
    ELSE IF ~c.fitted THEN Failed("NotFittedError")
    ELSE IF Len(X) # Len(y) THEN Failed("ValueError")
    ELSE Returned(Score(c, X, y))

\* the expression balanced_accuracy_score(y, clf.predict(X)): the error of
\* clf.predict, or ValueError when y and the predictions differ in length
BalancedCall(c, X, y) ==
    LET p == PredictCall(c, X)
    IN  IF p.error # "" THEN Failed(p.error)
        ELSE IF Len(p.val) # Len(y) THEN Failed("ValueError")
        ELSE Returned(balanced_accuracy_score(y, p.val))

Stmt(what, on, method) == [what |-> what, on |-> on, method |-> method]

\* the print statements in an order that predicts first
EvalClfStatementsPredictFirst == <<
    Stmt("balanced accuracy", "train", "predict"),
    Stmt("accuracy", "train", "score"),
    Stmt("balanced accuracy", "test", "predict"),
    Stmt("accuracy", "test", "score") >>

\* the four print statements of eval_clf in order: the metric printed, the
\* split it is computed on, the method of clf the statement calls
EvalClfStatements == <<
    Stmt("accuracy", "train", "score"),
    Stmt("accuracy", "test", "score"),
    Stmt("balanced accuracy", "train", "predict"),
    Stmt("balanced accuracy", "test", "predict") >>

\* the value one print statement formats
Metric(c, st, X, y) ==
    IF st.method = "score" THEN ScoreCall(c, X, y) ELSE BalancedCall(c, X, y)

RECURSIVE RunPrints(_, _, _, _, _)
\* Statements i..Len(stmts) of eval_clf on model c and the arrays d: each
\* computes its number and prints it with :.3f; the first error ends the call
\* and reaches the caller (the function has no try).  acc holds the calls
\* made and the lines printed so far.
RunPrints(stmts, i, c, d, acc) ==
    IF i > Len(stmts) THEN acc
    ELSE LET st   == stmts[i]
             X    == IF st.on = "train" THEN d.X_train ELSE d.X_test
             y    == IF st.on = "train" THEN d.y_train ELSE d.y_test
             m    == Metric(c, st, X, y)
             made == Append(acc.calls, Call(st.method, st.on))
         IN  IF m.error # ""
             THEN [acc EXCEPT !.calls = made, !.error = m.error]
             ELSE RunPrints(stmts, i + 1, c, d,
                            [acc EXCEPT !.calls = made,
                                        !.out = Append(@, Item(st.what, st.on, Fmt3(m.val)))])

\* eval_clf(clf, X_train, y_train, X_test, y_test): four print statements, each
\* computing its number and formatting it with :.3f.  Gives the classifier as
\* the calls leave it, the calls made on it, the lines printed, and the error
\* raised to the caller ("" when the call returns).
eval_clf(c, X_train, y_train, X_test, y_test) ==
    RunPrints(EvalClfStatements, 1, c,
              [X_train |-> X_train, y_train |-> y_train, X_test |-> X_test, y_test |-> y_test],
              [clf |-> c, error |-> "", calls |-> <<>>, out |-> <<>>])

\* clf = DummyClassifier(strategy="most_frequent"); clf = clf.fit(X_train, y_train)
TrainDummy ==
    /\ nb = "hdf"
    /\ clf' = Fit(NewDummy, data.X_train, data.y_train)
    /\ out' = <<>>
    /\ calls' = <<>>
    /\ raised' = ""
    /\ last' = "fit"
    /\ UNCHANGED <<nb, rng, ret, prev, between, df_train, df_test, data>>

\* eval_clf(clf, X_train, y_train, X_test, y_test) on the fitted classifier
EvalClf ==
    /\ nb = "hdf"
    /\ clf.fitted
    /\ LET r == eval_clf(clf, data.X_train, data.y_train, data.X_test, data.y_test)
       IN  /\ clf' = r.clf
           /\ out' = r.out
           /\ calls' = r.calls
           /\ raised' = r.error
    /\ last' = "eval_clf"
    /\ UNCHANGED <<nb, rng, ret, prev, between, df_train, df_test, data>>

----------------------------------------------------------------------------
(* The causal notebook: the data cells and test_model *)

\* the floats a fitted linear model gives back: lm.score is any of ScoreVals,
\* the intercept and each coefficient any of CoefVals
ScoreVals == {Rat(0 - 1, 3), Rat(1, 2)}
CoefVals == {Rat(0 - 2, 3), Rat(5, 2)}

\* the input_vars lists the notebook passes to test_model
InputVarLists == {<<"X">>, <<"X", "K">>}

\* df[cols]: the named columns of a table, in the order asked
Select(df, cols) ==
    [columns |-> cols,
     rows    |-> [j \in 1 .. Len(df.rows) |->
                    [c \in 1 .. Len(cols) |->
                        df.rows[j][CHOOSE k \in 1 .. Len(df.columns) : df.columns[k] = cols[c]]]]]

\* LinearRegression().fit(X, y): a new model, fitted once on X and y; the
\* intercept and the coefficients (one per column of X) come from the library
LinearRegressionFit(X, y, intercept, coef) ==
    [kind |-> "LinearRegression", nfit |-> 1, fit_X |-> X, fit_y |-> y,
     intercept |-> intercept, coef |-> coef]

\* test_model that fits its model on the test table
test_model_fit_on_test(input_vars, train, test, intercept, coef, r2_train, r2_test) ==
    LET lm == LinearRegressionFit(Select(test, input_vars), Select(test, <<"Y">>), intercept, coef)
    IN  [lm    |-> lm,
         calls |-> <<Call("fit", "test"), Call("score", "train"), Call("score", "test")>>,
         out   |-> <<Item("R^2", "train", Fmt3(r2_train)),
                     Item("R^2", "test", Fmt3(r2_test)),
                     Item("intercept", "", Fmt3(lm.intercept))>>
                   \o [i \in 1 .. Len(input_vars) |-> Item("coef", input_vars[i], Fmt3(lm.coef[i]))]]

\* test_model(input_vars, df_train, df_test): fits a new linear model of Y on
\* df_train[input_vars], scores it on both tables and prints R^2 (train),
\* R^2 (test), the intercept and one coefficient per input variable, all
\* with :0.3f.  r2_train and r2_test are what lm.score returns.
test_model(input_vars, train, test, intercept, coef, r2_train, r2_test) ==
    LET lm == LinearRegressionFit(Select(train, input_vars), Select(train, <<"Y">>), intercept, coef)
    IN  [lm    |-> lm,
         calls |-> <<Call("fit", "train"), Call("score", "train"), Call("score", "test")>>,
         out   |-> <<Item("R^2", "train", Fmt3(r2_train)),
                     Item("R^2", "test", Fmt3(r2_test)),
                     Item("intercept", "", Fmt3(lm.intercept))>>
                   \o [i \in 1 .. Len(input_vars) |-> Item("coef", input_vars[i], Fmt3(lm.coef[i]))]]

\* df_train = sample_data(1); df_test = sample_data(2)
\* (the default n = 10000 stands for any positive row count)
CellTrainTest ==
    /\ nb = "causal"
    /\ \E n \in 1 .. MaxN :
         LET r1 == sample_data(rng, IntSeed(1), n, FALSE, FALSE, 0)
             r2 == sample_data(r1.rng, IntSeed(2), n, FALSE, FALSE, 0)
         IN  /\ df_train' = r1.table
             /\ df_test' = r2.table
             /\ rng' = r2.rng
    /\ out' = <<>>
    /\ calls' = <<>>
    /\ raised' = ""
    /\ last' = "cell_train_test"
    /\ UNCHANGED <<nb, ret, prev, between, data, clf>>

\* df_test = sample_data(2, data_drift=True) and
\* df_test = sample_data(2, concept_drift=True)
CellDriftTest ==
    /\ nb = "causal"
    /\ \E n \in 1 .. MaxN, drift \in {"data", "concept"} :
         LET r == sample_data(rng, IntSeed(2), n, drift = "data", drift = "concept", 0)
         IN  /\ df_test' = r.table
             /\ rng' = r.rng
    /\ out' = <<>>
    /\ calls' = <<>>
    /\ raised' = ""
    /\ last' = "cell_drift_test"
    /\ UNCHANGED <<nb, ret, prev, between, df_train, data, clf>>

\* test_model(input_vars, df_train, df_test), once both tables exist
TestModel ==
    /\ nb = "causal"
    /\ df_train # NoTable /\ df_test # NoTable
    /\ \E input_vars \in InputVarLists, b \in CoefVals, r2_train \in ScoreVals, r2_test \in ScoreVals :
       \E coef \in [1 .. Len(input_vars) -> CoefVals] :
         LET r == test_model(input_vars, df_train, df_test, b, coef, r2_train, r2_test)
         IN  /\ out' = r.out
             /\ calls' = r.calls
             /\ clf' = r.lm
    /\ raised' = ""
    /\ last' = "test_model"
    /\ UNCHANGED <<nb, rng, ret, prev, between, df_train, df_test, data>>

----------------------------------------------------------------------------
(* The MNIST notebook: eval_net *)

NetModules == {"LinNN", "FFNN", "CNN"}

\* NeuralNetClassifier(net_module, ..., max_epochs=max_epochs): not fitted yet
NeuralNetClassifier(net_module, max_epochs) ==
    [kind |-> net_module, fitted |-> FALSE, majority |-> 0, nfit |-> 0,
     max_epochs |-> max_epochs, epochs |-> 0]

\* net.fit(X_train, y_train): the module is initialised anew and trained for
\* max_epochs epochs
NetFit(net) == [net EXCEPT !.fitted = TRUE, !.nfit = @ + 1, !.epochs = net.max_epochs]

\* one statement of eval_net as it runs: the arrays it is given and the
\* wrapper as the statement leaves it
Event(stmt, X, y, net) == [stmt |-> stmt, X |-> X, y |-> y, net |-> net]

\* eval_net with the prediction made before the wrapper is fitted
eval_net_predict_first(net_module, X_train, y_train, X_test, y_test, y_pred, max_epochs) ==
    LET new == NeuralNetClassifier(net_module, max_epochs)
        net == NetFit(new)
    IN  [clf    |-> net,
         calls  |-> <<Call("predict", "test"), Call("fit", "train")>>,
         out    |-> <<Heading(net_module),
                      Item("accuracy", "test", ReprFloat(Accuracy(y_test, y_pred)))>>,
         events |-> <<Event("print", <<>>, <<>>, NoClf),
                      Event("NeuralNetClassifier", <<>>, <<>>, new),
                      Event("predict", X_test, <<>>, new),
                      Event("fit", X_train, y_train, net),
                      Event("print accuracy", <<>>, y_test, net),
                      Event("return", <<>>, <<>>, net)>>]

\* eval_net(net_module, X_train, y_train, X_test, y_test, max_epochs): prints the module
\* name, builds a new wrapper, fits it on the training data, predicts the test
\* data (y_pred is what net.predict returns) and prints the test accuracy
\* with a plain print.  (The per-epoch table skorch logs during fit, with the
\* running train_acc of the EpochScoring callback, is output of the library
\* while it trains and is left out.)  events lists the statements in the
\* order they run.
eval_net(net_module, X_train, y_train, X_test, y_test, y_pred, max_epochs) ==
    LET new == NeuralNetClassifier(net_module, max_epochs)
        net == NetFit(new)
    IN  [clf    |-> net,
         calls  |-> <<Call("fit", "train"), Call("predict", "test")>>,
         out    |-> <<Heading(net_module),
                      Item("accuracy", "test", ReprFloat(Accuracy(y_test, y_pred)))>>,
         events |-> <<Event("print", <<>>, <<>>, NoClf),
                      Event("NeuralNetClassifier", <<>>, <<>>, new),
                      Event("fit", X_train, y_train, net),
                      Event("predict", X_test, <<>>, net),
                      Event("print accuracy", <<>>, y_test, net),
                      Event("return", <<>>, <<>>, net)>>]

\* net = eval_net(net_module, X_train, y_train, X_test, y_test)
EvalNet ==
    /\ nb = "mnist"
    /\ \E net_module \in NetModules, y_pred \in [1 .. Len(data.y_test) -> Labels] :
         LET r == eval_net(net_module, data.X_train, data.y_train, data.X_test, data.y_test, y_pred, 1)
         IN  /\ clf' = r.clf
             /\ out' = r.out
             /\ calls' = r.calls
    /\ raised' = ""
    /\ last' = "eval_net"
    /\ UNCHANGED <<nb, rng, ret, prev, between, df_train, df_test, data>>

----------------------------------------------------------------------------
(* The notebooks with their harnesses *)

Vectors(S, k) == UNION {[1 .. m -> S] : m \in 1 .. k}

\* the features: one row per label (the classifiers here do not read them)
Rows(y) == [i \in 1 .. Len(y) |-> <<i>>]

DataSets ==
    {[X_train |-> Rows(ytr), y_train |-> ytr, X_test |-> Rows(yte), y_test |-> yte] :
        ytr \in Vectors(Labels, MaxRows), yte \in Vectors(Labels, MaxRows)}

\* One kernel per notebook.  The hard-drive and MNIST notebooks start with
\* their train/test split loaded; the causal notebook starts with no table
\* and the generator in any state.  The MNIST notebook has run
\* np.random.seed(28); the hard-drive notebook never uses the generator, which
\* is held in the same state there.
InitEval ==
    /\ nb \in {"causal", "hdf", "mnist"}
    /\ IF nb = "causal" THEN rng \in RngStates ELSE rng = SeedState(28)
    /\ ret = NoCall
    /\ prev = NoCall
    /\ between = FALSE
    /\ df_train = NoTable
    /\ df_test = NoTable
    /\ IF nb = "causal" THEN data = NoData ELSE data \in DataSets
    /\ clf = NoClf
    /\ out = <<>>
    /\ calls = <<>>
    /\ raised = ""
    /\ last = "start"

NextEval ==
    \/ CellTrainTest
    \/ CellDriftTest
    \/ TestModel
    \/ TrainDummy
    \/ EvalClf
    \/ EvalNet

EvalSpec == InitEval /\ [][NextEval]_vars

----------------------------------------------------------------------------
(* eval_clf called with any model and any arrays *)

MaxLen == 2                  \* most rows of an array passed to eval_clf here

\* a model object that is not an estimator of the library: it has the
\* methods attrs, of which the ones in raises fail when called; a score or
\* predict it has answers like a fitted estimator's
Object(attrs, raises) ==
    [kind |-> "object", fitted |-> TRUE, majority |-> 0, nfit |-> 0,
     attrs |-> attrs, raises |-> raises]

\* the models a cell may pass: a DummyClassifier not fitted yet, one fitted
\* on some labels, and objects with or without score and predict, or with a
\* predict that raises
Models ==
    {NewDummy}
    \cup {Fit(NewDummy, Rows(y), y) : y \in Vectors(Labels, MaxLen)}
    \cup {Object(a, {}) : a \in SUBSET {"score", "predict"}}
    \cup {Object({"score", "predict"}, {"predict"})}

\* the arrays a cell may pass: features and labels of any row counts
ArraySets ==
    {[X_train |-> [i \in 1 .. ntr |-> <<i>>], y_train |-> ytr,
      X_test |-> [i \in 1 .. nte |-> <<i>>], y_test |-> yte] :
        ntr \in 1 .. MaxLen, nte \in 1 .. MaxLen,
        ytr \in Vectors(Labels, MaxLen), yte \in Vectors(Labels, MaxLen)}

\* clf = <a model>
NewModel ==
    /\ nb = "hdf"
    /\ \E c \in Models : clf' = c
    /\ out' = <<>>
    /\ calls' = <<>>
    /\ raised' = ""
    /\ last' = "new_model"
    /\ UNCHANGED <<nb, rng, ret, prev, between, df_train, df_test, data>>

\* eval_clf(clf, X_train, y_train, X_test, y_test) on whatever clf is
EvalClfCall ==
    /\ nb = "hdf"
    /\ clf.kind # "none"
    /\ LET r == eval_clf(clf, data.X_train, data.y_train, data.X_test, data.y_test)
       IN  /\ clf' = r.clf
           /\ out' = r.out
           /\ calls' = r.calls
           /\ raised' = r.error
    /\ last' = "eval_clf"
    /\ UNCHANGED <<nb, rng, ret, prev, between, df_train, df_test, data>>

InitCall ==
    /\ nb = "hdf"
    /\ rng = SeedState(28)
    /\ ret = NoCall
    /\ prev = NoCall
    /\ between = FALSE
    /\ df_train = NoTable
    /\ df_test = NoTable
    /\ data \in ArraySets
    /\ clf = NoClf
    /\ out = <<>>
    /\ calls = <<>>
    /\ raised = ""
    /\ last = "start"

NextCall == NewModel \/ EvalClfCall

CallSpec == InitCall /\ [][NextCall]_vars

----------------------------------------------------------------------------
(* The MNIST notebook: the network modules and the logistic regression *)

MaxFeatures == 3             \* most features of a small data set
MaxClasses == 4              \* most classes of a small data set

\* nn.Linear(n_in, n_out) without its bias vector
LinearNoBias(n_in, n_out) ==
    [type |-> "Linear", n_in |-> n_in, n_out |-> n_out, kernel |-> 1, stride |-> 1, bias |-> FALSE]

\* nn.Linear(n_in, n_out): a weight matrix and, by default, a bias vector
Linear(n_in, n_out) ==
    [type |-> "Linear", n_in |-> n_in, n_out |-> n_out, kernel |-> 1, stride |-> 1, bias |-> TRUE]

\* nn.Conv2d(in_channels, out_channels, kernel_size, stride): out_channels
\* filters of in_channels x kernel x kernel weights, and a bias per filter
Conv2d(in_channels, out_channels, kernel_size, stride) ==
    [type |-> "Conv2d", n_in |-> in_channels, n_out |-> out_channels,
     kernel |-> kernel_size, stride |-> stride, bias |-> TRUE]

\* nn.Dropout(p): no parameters
Dropout ==
    [type |-> "Dropout", n_in |-> 0, n_out |-> 0, kernel |-> 1, stride |-> 1, bias |-> FALSE]

\* the trainable parameters of one layer
ParamsOf(l) ==
    l.n_out * l.n_in * l.kernel * l.kernel + (IF l.bias THEN l.n_out ELSE 0)

RECURSIVE ParamCount(_)
\* the trainable parameters of a module: the sum over its layers
ParamCount(layers) ==
    IF layers = <<>> THEN 0 ELSE ParamsOf(Head(layers)) + ParamCount(Tail(layers))

\* the default sizes of LinNN.__init__ and FFNN.__init__
LinNNDefaults == [n_in |-> 784, n_out |-> 10]
FFNNDefaults == [n_in |-> 784, n_hl1 |-> 512, n_hl2 |-> 256, n_out |-> 10]

\* the layers the constructors create, in the order they are assigned
LinNN(kw) == <<Linear(kw.n_in, kw.n_out)>>
FFNN(kw) ==
    <<Dropout, Linear(kw.n_in, kw.n_hl1), Linear(kw.n_hl1, kw.n_hl2), Linear(kw.n_hl2, kw.n_out)>>
CNN ==
    <<Conv2d(1, 32, 3, 1), Conv2d(32, 64, 3, 1), Dropout, Dropout,
      Linear(9216, 128), Linear(128, 10)>>
MyNeuralNet(kw) ==
    <<Linear(kw.n_in, kw.n_hl1), Linear(kw.n_hl1, kw.n_hl2), Linear(kw.n_hl2, kw.n_out)>>

MaxBatch == 2                \* most samples of one batch

\* the functions of torch.nn.functional and torch the forward methods call
Functional(name, arg) ==
    [type |-> name, n_in |-> 0, n_out |-> 0, kernel |-> arg, stride |-> arg, bias |-> FALSE]
Relu == Functional("relu", 1)
Softmax(dim) == Functional("softmax", dim)
MaxPool2d(kernel_size) == Functional("max_pool2d", kernel_size)
Flatten(start_dim) == Functional("flatten", start_dim)

\* the statements of the forward methods, in order, over the layers the
\* constructor assigned
Forward(kind, layers) ==
    CASE kind = "LinNN" -> <<layers[1], Softmax(1)>>
      [] kind = "MyNeuralNet" ->
            <<layers[1], Relu, layers[2], Relu, layers[3], Softmax(1)>>
      [] kind = "FFNN" ->
            <<layers[2], Relu, layers[1], layers[3], Relu, layers[1], layers[4], Softmax(1)>>
      [] kind = "CNN" ->
            <<layers[1], Relu, layers[2], Relu, MaxPool2d(2), layers[3], Flatten(1),
              layers[5], Relu, layers[4], layers[6], Softmax(1)>>

RECURSIVE Numel(_)
\* the number of entries of an array of this shape
Numel(shape) == IF shape = <<>> THEN 1 ELSE Head(shape) * Numel(Tail(shape))

Shaped(shape) == [error |-> "", shape |-> shape]
ShapeError(kind) == [error |-> kind, shape |-> <<>>]

\* a convolution that pads its input so as to keep height and width
ShapeAfterSamePadding(l, shape) ==
    IF l.type = "Conv2d"
    THEN IF Len(shape) = 4 /\ shape[2] = l.n_in
         THEN Shaped(<<shape[1], l.n_out, shape[3], shape[4]>>)
         ELSE ShapeError("RuntimeError")
    ELSE IF l.type = "Linear"
    THEN IF Len(shape) >= 1 /\ shape[Len(shape)] = l.n_in
         THEN Shaped([shape EXCEPT ![Len(shape)] = l.n_out])
         ELSE ShapeError("RuntimeError")
    ELSE IF l.type = "max_pool2d"
    THEN IF Len(shape) = 4 /\ shape[3] \div l.kernel >= 1 /\ shape[4] \div l.kernel >= 1
         THEN Shaped(<<shape[1], shape[2], shape[3] \div l.kernel, shape[4] \div l.kernel>>)
         ELSE ShapeError("RuntimeError")
    ELSE IF l.type = "flatten"
    THEN IF Len(shape) >= 2
         THEN Shaped(<<shape[1], Numel(Tail(shape))>>)
         ELSE ShapeError("IndexError")
    ELSE IF l.type = "softmax"
    THEN IF Len(shape) >= 2 THEN Shaped(shape) ELSE ShapeError("IndexError")
    ELSE Shaped(shape)

\* the shape of what a layer or function returns for an input of this shape:
\*   nn.Linear(n_in, n_out)  needs n_in entries in the last dimension and
\*                           gives n_out there;
\*   nn.Conv2d(c_in, c_out, k, s)  needs N x c_in x H x W with H, W >= k and
\*                           gives N x c_out x ((H-k)//s + 1) x ((W-k)//s + 1);
\*   F.max_pool2d(h, k)      gives N x C x H//k x W//k;
\*   torch.flatten(h, 1)     gives N x (all the rest multiplied);
\*   F.softmax(h, dim=1)     needs a dimension 1 and keeps the shape;
\*   F.relu, nn.Dropout      keep the shape.
ShapeAfter(l, shape) ==
    IF l.type = "Conv2d"
    THEN IF Len(shape) = 4 /\ shape[2] = l.n_in /\ shape[3] >= l.kernel /\ shape[4] >= l.kernel
         THEN Shaped(<<shape[1], l.n_out,
                       (shape[3] - l.kernel) \div l.stride + 1,
                       (shape[4] - l.kernel) \div l.stride + 1>>)
         ELSE ShapeError("RuntimeError")
    ELSE IF l.type = "Linear"
    THEN IF Len(shape) >= 1 /\ shape[Len(shape)] = l.n_in
         THEN Shaped([shape EXCEPT ![Len(shape)] = l.n_out])
         ELSE ShapeError("RuntimeError")
    ELSE IF l.type = "max_pool2d"
    THEN IF Len(shape) = 4 /\ shape[3] \div l.kernel >= 1 /\ shape[4] \div l.kernel >= 1
         THEN Shaped(<<shape[1], shape[2], shape[3] \div l.kernel, shape[4] \div l.kernel>>)
         ELSE ShapeError("RuntimeError")
    ELSE IF l.type = "flatten"
    THEN IF Len(shape) >= 2
         THEN Shaped(<<shape[1], Numel(Tail(shape))>>)
         ELSE ShapeError("IndexError")
    ELSE IF l.type = "softmax"
    THEN IF Len(shape) >= 2 THEN Shaped(shape) ELSE ShapeError("IndexError")
    ELSE Shaped(shape)

RECURSIVE RunForward(_, _, _)
\* module.forward(x): the statements one after the other; trace lists, for
\* every statement run, what was applied, to which shape, with which result;
\* the first failing statement ends the call
RunForward(ops, shape, trace) ==
    IF ops = <<>>
    THEN [error |-> "", shape |-> shape, trace |-> trace]
    ELSE LET r == ShapeAfter(Head(ops), shape)
         IN  IF r.error # ""
             THEN [error |-> r.error, shape |-> <<>>, trace |-> trace]
             ELSE RunForward(Tail(ops), r.shape,
                             Append(trace, [layer |-> Head(ops), input |-> shape, output |-> r.shape]))

\* X.reshape(-1, 1, 28, 28): the first dimension takes what is left
Reshape28(shape) ==
    IF Numel(shape) % (1 * 28 * 28) = 0
    THEN Shaped(<<Numel(shape) \div (1 * 28 * 28), 1, 28, 28>>)
    ELSE ShapeError("ValueError")

\* the array a loop hands to eval_net for this module: reshaped for the CNN
NetInput(kind, shape) == IF kind = "CNN" THEN Reshape28(shape) ELSE Shaped(shape)

\* LogisticRegression(fit_intercept=True).fit(X, y) on n_features columns and
\* n_classes classes: coef_ has one row per class (a single row when there
\* are two classes), intercept_ one value per row
LogisticRegressionFit(n_features, n_classes) ==
    LET rows == IF n_classes = 2 THEN 1 ELSE n_classes
    IN  [kind |-> "LogisticRegression", fitted |-> TRUE, majority |-> 0, nfit |-> 1,
         coef_shape |-> <<rows, n_features>>, intercept_shape |-> <<rows>>]

\* the fitted parameters of a logistic regression: coef_ and intercept_
LogRegParamCount(m) == m.coef_shape[1] * m.coef_shape[2] + m.intercept_shape[1]

\* the data sets by their shape: small ones, and MNIST as the notebook loads
\* it (28 x 28 pixels flattened to 784 features, 10 digits)
Shapes ==
    {[n_features |-> f, n_classes |-> k] :
        f \in (1 .. MaxFeatures) \cup {LinNNDefaults.n_in},
        k \in (2 .. MaxClasses) \cup {LinNNDefaults.n_out}}

\* the keyword arguments tried for LinNN and FFNN: the defaults, and the
\* sizes of the data set loaded
LinNNArgs == {LinNNDefaults} \cup {[n_in |-> sh.n_features, n_out |-> sh.n_classes] : sh \in Shapes}
FFNNArgs ==
    {FFNNDefaults}
    \cup {[FFNNDefaults EXCEPT !.n_in = sh.n_features, !.n_out = sh.n_classes] : sh \in Shapes}

Module(name, kw, layers) ==
    [kind |-> name, fitted |-> FALSE, majority |-> 0, nfit |-> 0, kwargs |-> kw, layers |-> layers]

\* net_module(**kwargs): a network module is built
BuildNet ==
    /\ nb = "mnist"
    /\ \/ \E kw \in LinNNArgs : clf' = Module("LinNN", kw, LinNN(kw))
       \/ \E kw \in FFNNArgs : clf' = Module("FFNN", kw, FFNN(kw))
       \/ clf' = Module("CNN", [n_in |-> 1, n_out |-> 10], CNN)
       \/ \E kw \in FFNNArgs : clf' = Module("MyNeuralNet", kw, MyNeuralNet(kw))
    /\ out' = <<>>
    /\ calls' = <<>>
    /\ raised' = ""
    /\ last' = "build_net"
    /\ UNCHANGED <<nb, rng, ret, prev, between, df_train, df_test, data>>

\* clf = LogisticRegression(..., fit_intercept=True); clf.fit(X_train, y_train)
FitLogReg ==
    /\ nb = "mnist"
    /\ clf' = LogisticRegressionFit(data.n_features, data.n_classes)
    /\ out' = <<>>
    /\ calls' = <<Call("fit", "train")>>
    /\ raised' = ""
    /\ last' = "fit_logreg"
    /\ UNCHANGED <<nb, rng, ret, prev, between, df_train, df_test, data>>

\* the module built last is applied to a batch of n samples of the data set
\* loaded, handed over as the loops do
ForwardPass ==
    /\ nb = "mnist"
    /\ clf # NoClf
    /\ clf.kind \in {"LinNN", "FFNN", "CNN", "MyNeuralNet"}
    /\ \E n \in 1 .. MaxBatch :
         LET X == <<n, data.n_features>>
             x == NetInput(clf.kind, X)
             reshaped == IF clf.kind = "CNN"
                         THEN <<[layer |-> Functional("reshape", 28), input |-> X, output |-> x.shape]>>
                         ELSE <<>>
             r == IF x.error # ""
                  THEN [error |-> x.error, shape |-> <<>>, trace |-> <<>>]
                  ELSE RunForward(Forward(clf.kind, clf.layers), x.shape, reshaped)
         IN  /\ out' = r.trace
             /\ raised' = r.error
    /\ calls' = <<Call("forward", "train")>>
    /\ last' = "forward"
    /\ UNCHANGED <<nb, rng, ret, prev, between, df_train, df_test, data, clf>>

\* the MNIST notebook with a data set of some shape loaded
InitNet ==
    /\ nb = "mnist"
    /\ rng = SeedState(28)
    /\ ret = NoCall
    /\ prev = NoCall
    /\ between = FALSE
    /\ df_train = NoTable
    /\ df_test = NoTable
    /\ data \in Shapes
    /\ clf = NoClf
    /\ out = <<>>
    /\ calls = <<>>
    /\ raised = ""
    /\ last = "start"

NextNet == BuildNet \/ FitLogReg \/ ForwardPass

NetSpec == InitNet /\ [][NextNet]_vars

----------------------------------------------------------------------------
(* The hard-drive notebook: features, labels and the train/test split *)

MaxDrives == 3               \* most rows of the loaded table

\* Column names, letter by letter (startswith reads them so)
Smart1 == <<"s", "m", "a", "r", "t", "_", "1">>
Smart9 == <<"s", "m", "a", "r", "t", "_", "9">>
SmartBare == <<"s", "m", "a", "r", "t">>
SmartUpper == <<"S", "m", "a", "r", "t", "_", "5">>
Smar == <<"s", "m", "a", "r">>
Serial == <<"s", "e", "r", "i", "a", "l">>
ModelSmart == <<"m", "o", "d", "e", "l", "_", "s", "m", "a", "r", "t">>
Failure == <<"f", "a", "i", "l", "u", "r", "e">>

\* the prefix and the label name the cell uses
SmartPrefix == <<"s", "m", "a", "r", "t">>

\* the column layouts of the csv files tried: every one has the label
ColumnLists ==
    {<<Serial, ModelSmart, Failure, Smart1, Smart9>>,
     <<Smart9, Failure, Smart1>>,
     <<Failure, SmartUpper, SmartBare, Smar>>,
     <<Serial, Failure>>}

\* pd.read_csv: a table with these columns, one row per drive; the label
\* column holds labels[j], every other cell a number of its own
CsvTable(cols, labels) ==
    [columns |-> cols,
     rows    |-> [j \in 1 .. Len(labels) |->
                    [c \in 1 .. Len(cols) |->
                        IF cols[c] = Failure THEN labels[j] ELSE 10 * j + c]]]

Tables == {CsvTable(cols, y) : cols \in ColumnLists, y \in Vectors(Labels, MaxDrives)}

\* c.startswith(prefix)
StartsWith(c, prefix) == Len(c) >= Len(prefix) /\ SubSeq(c, 1, Len(prefix)) = prefix

\* [c for c in df.columns if c.startswith("smart")]
FeatCols(df) == SelectSeq(df.columns, LAMBDA c : StartsWith(c, SmartPrefix))

\* the orders rng.permutation(n) can give
Perms(n) == {p \in [1 .. n -> 1 .. n] : \A i \in 1 .. n : \A j \in 1 .. n : p[i] = p[j] => i = j}

\* the split with the labels taken in their original order
train_test_split_unpaired(X, y, perm) ==
    LET n       == Len(X)
        n_test  == (2 * n + 9) \div 10
        n_train == (8 * n) \div 10
    IN  IF n_train = 0
        THEN [error |-> "ValueError", X_train |-> <<>>, X_test |-> <<>>, y_train |-> <<>>, y_test |-> <<>>]
        ELSE [error   |-> "",
              X_train |-> [i \in 1 .. n_train |-> X[perm[n_test + i]]],
              X_test  |-> [i \in 1 .. n_test |-> X[perm[i]]],
              y_train |-> [i \in 1 .. n_train |-> y[n_test + i]],
              y_test  |-> [i \in 1 .. n_test |-> y[i]]]

\* train_test_split(X, y, test_size=0.2, random_state=23): n_test is 0.2*n
\* rounded up, n_train 0.8*n rounded down (ValueError when that leaves the
\* train set empty); the rows are taken in the order perm, the shuffle of the
\* seeded generator, the first n_test to the test set, the next n_train to
\* the train set, with the same indices for X and for y
train_test_split(X, y, perm) ==
    LET n       == Len(X)
        n_test  == (2 * n + 9) \div 10
        n_train == (8 * n) \div 10
    IN  IF n_train = 0
        THEN [error |-> "ValueError", X_train |-> <<>>, X_test |-> <<>>, y_train |-> <<>>, y_test |-> <<>>]
        ELSE [error   |-> "",
              X_train |-> [i \in 1 .. n_train |-> X[perm[n_test + i]]],
              X_test  |-> [i \in 1 .. n_test |-> X[perm[i]]],
              y_train |-> [i \in 1 .. n_train |-> y[perm[n_test + i]]],
              y_test  |-> [i \in 1 .. n_test |-> y[perm[i]]]]

\* 1 - np.mean(y): the fraction of rows labelled 0
FractionOk(y) == Rat(Len(y) - Count(y, 1), Len(y))

Unsplit(df) ==
    [df |-> df, feat_cols |-> <<>>, X |-> <<>>, y |-> <<>>,
     X_train |-> <<>>, y_train |-> <<>>, X_test |-> <<>>, y_test |-> <<>>]

\* df = pd.read_csv(...); the runs explored load a table again only while
\* no split has succeeded
ReadCsv ==
    /\ nb = "hdf"
    /\ data.X_train = <<>>
    /\ \E t \in Tables : data' = [data EXCEPT !.df = t]
    /\ out' = <<>>
    /\ calls' = <<>>
    /\ raised' = ""
    /\ last' = "read_csv"
    /\ UNCHANGED <<nb, rng, ret, prev, between, df_train, df_test, clf>>

\* The cell that builds the training and test data: feat_cols, X, y, the
\* split, and the two printed fractions.  A failing split leaves the four
\* split arrays as they were and prints nothing.
FeatureCell ==
    /\ nb = "hdf"
    /\ \E perm \in Perms(Len(data.df.rows)) :
         LET feat_cols == FeatCols(data.df)
             X == Select(data.df, feat_cols).rows
             y == [j \in 1 .. Len(data.df.rows) |-> Select(data.df, <<Failure>>).rows[j][1]]
             r == train_test_split(X, y, perm)
         IN  IF r.error # ""
             THEN /\ data' = [data EXCEPT !.feat_cols = feat_cols, !.X = X, !.y = y]
                  /\ out' = <<>>
                  /\ raised' = r.error
             ELSE /\ data' = [data EXCEPT !.feat_cols = feat_cols, !.X = X, !.y = y,
                                          !.X_train = r.X_train, !.y_train = r.y_train,
                                          !.X_test = r.X_test, !.y_test = r.y_test]
                  /\ out' = <<Item("fraction ok", "train", Fmt3(FractionOk(r.y_train))),
                              Item("fraction ok", "test", Fmt3(FractionOk(r.y_test)))>>
                  /\ raised' = ""
    /\ calls' = <<>>
    /\ last' = "feature_cell"
    /\ UNCHANGED <<nb, rng, ret, prev, between, df_train, df_test, clf>>

InitSplit ==
    /\ nb = "hdf"
    /\ rng = SeedState(28)
    /\ ret = NoCall
    /\ prev = NoCall
    /\ between = FALSE
    /\ df_train = NoTable
    /\ df_test = NoTable
    /\ data \in {Unsplit(t) : t \in Tables}
    /\ clf = NoClf
    /\ out = <<>>
    /\ calls = <<>>
    /\ raised = ""
    /\ last = "start"

NextSplit == ReadCsv \/ FeatureCell

SplitSpec == InitSplit /\ [][NextSplit]_vars

----------------------------------------------------------------------------
(* The MNIST notebook: the loops that compare the networks *)

MaxTest == 2                 \* most samples of the test split

\* a feature array as the loops see it: which array it is, and its shape
Features(name, n) == [name |-> name, shape |-> <<n, 28 * 28>>]

\* X.reshape(-1, 1, 28, 28): the same data in another shape
Reshaped(X) == [X EXCEPT !.shape = Reshape28(X.shape).shape]

\* the splits load_data returned: the features by shape, the labels by value
LoopData ==
    {[X_train |-> Features("X_train", n), y_train |-> [i \in 1 .. n |-> i % 2],
      X_test |-> Features("X_test", Len(yte)), y_test |-> yte] :
        n \in 1 .. MaxBatch, yte \in Vectors(Labels, MaxTest)}

\* the body of the loops: the CNN gets the arrays reshaped to images, the
\* other modules get them as they are
LoopBody(net_module, d, y_pred, max_epochs) ==
    IF net_module = "CNN"
    THEN eval_net(net_module, Reshaped(d.X_train), d.y_train, Reshaped(d.X_test), d.y_test,
                  y_pred, max_epochs)
    ELSE eval_net(net_module, d.X_train, d.y_train, d.X_test, d.y_test, y_pred, max_epochs)

\* for net_module in [LinNN, FFNN, CNN]
LoopModules == <<"LinNN", "FFNN", "CNN">>

\* the for statement: the loop with max_epochs is at its i-th module, or
\* past the last one when no loop is running
LoopAt(max_epochs, i) == [kind |-> "loop", max_epochs |-> max_epochs, i |-> i]

\* a cell with one of the loops is started: with the default max_epochs = 1
\* or with max_epochs = 15
StartLoop ==
    /\ nb = "mnist"
    /\ ret.i > Len(LoopModules)
    /\ \E max_epochs \in {1, 15} : ret' = LoopAt(max_epochs, 1)
    /\ out' = <<>>
    /\ calls' = <<>>
    /\ raised' = ""
    /\ last' = "start_loop"
    /\ UNCHANGED <<nb, rng, prev, between, df_train, df_test, data, clf>>

\* one pass of the loop: net = eval_net(net_module, ...); y_pred is what the
\* network predicts for the test data; calls collects the statements run and
\* out what the cell has printed
LoopStep ==
    /\ nb = "mnist"
    /\ ret.i <= Len(LoopModules)
    /\ \E y_pred \in [1 .. Len(data.y_test) -> Labels] :
         LET r == LoopBody(LoopModules[ret.i], data, y_pred, ret.max_epochs)
         IN  /\ clf' = r.clf
             /\ out' = out \o r.out
             /\ calls' = calls \o r.events
    /\ ret' = [ret EXCEPT !.i = @ + 1]
    /\ raised' = ""
    /\ last' = "eval_net"
    /\ UNCHANGED <<nb, rng, prev, between, df_train, df_test, data>>

InitLoop ==
    /\ nb = "mnist"
    /\ rng = SeedState(28)
    /\ ret = LoopAt(1, Len(LoopModules) + 1)
    /\ prev = NoCall
    /\ between = FALSE
    /\ df_train = NoTable
    /\ df_test = NoTable
    /\ data \in LoopData
    /\ clf = NoClf
    /\ out = <<>>
    /\ calls = <<>>
    /\ raised = ""
    /\ last = "start"

NextLoop == StartLoop \/ LoopStep

LoopSpec == InitLoop /\ [][NextLoop]_vars

----------------------------------------------------------------------------
(* The MNIST notebook: loading and showing the images *)

MaxImages == 2               \* most images of a small data set
MaxSide == 2                 \* longest side of a small image

\* the numbers of images and the sides tried: small ones, and those around
\* the ten images plot_images shows, with the 28 x 28 pixels of MNIST
ImageCounts == (1 .. MaxImages) \cup {10, 11}
Sides == (1 .. MaxSide) \cup {28}
Kinds == {"zeros", "full", "ramp", "spot"}

\* the raw pixel (uint8) at row r, column c of image i
Pixel(kind, i, r, c) ==
    CASE kind = "zeros" -> 0
      [] kind = "full" -> 255
      [] kind = "half" -> IF r = 1 THEN 128 ELSE 0
      [] kind = "ramp" -> (37 * i + 5 * r + c) % 256
      [] kind = "spot" -> IF i = 1 /\ r = 1 /\ c = 1 THEN 1 ELSE 0

\* datasets.MNIST(...) / datasets.FashionMNIST(...): data holds n images of
\* side x side raw pixels, targets one class per image
Dataset(kind, n, side) ==
    [data    |-> [i \in 1 .. n |-> [r \in 1 .. side |-> [c \in 1 .. side |-> Pixel(kind, i, r, c)]]],
     targets |-> [i \in 1 .. n |-> (3 * i) % 10]]

\* the files under ../data: a train and a test set for each of the two
\* collections
Disks ==
    {[mnist   |-> [train |-> Dataset(kind, n, side), test |-> Dataset(tkind, 2, side)],
      fashion |-> [train |-> Dataset("ramp", n, side), test |-> Dataset("spot", 1, side)]] :
        kind \in Kinds, n \in ImageCounts, side \in Sides, tkind \in {"half", "zeros"}}

\* x / m in floating point: the quotient, kept as the pair of its terms;
\* 0 / 0 is nan (the pair 0, 0), which numpy returns with a warning
TrueDivide(x, m) == Rat(x, m)
IsNaN(v) == v[1] = 0 /\ v[2] = 0

\* X.reshape(X.shape[0], -1): every image row after row in one vector
ReshapeRows(X) ==
    [i \in 1 .. Len(X) |->
        LET H == Len(X[i])
            W == Len(X[i][1])
        IN  [j \in 1 .. H * W |-> X[i][((j - 1) \div W) + 1][((j - 1) % W) + 1]]]

\* X.max(): the largest entry of the whole array
ArrayMax(X) ==
    LET vals == {X[i][j] : i \in 1 .. Len(X), j \in 1 .. Len(X[1])}
    IN  CHOOSE m \in vals : \A v \in vals : v <= m

\* torch_to_X_y with the division by the largest value a pixel can take
torch_to_X_y_by_255(dataset) ==
    LET X == ReshapeRows(dataset.data)
    IN  [X |-> [i \in 1 .. Len(X) |-> [j \in 1 .. Len(X[i]) |-> TrueDivide(X[i][j], 255)]],
         y |-> dataset.targets]

\* torch_to_X_y(dataset): the images flattened, as float32 (exact for the
\* raw pixels), every entry divided by the maximum of this array; the
\* targets as they are
torch_to_X_y(dataset) ==
    LET X == ReshapeRows(dataset.data)
        m == ArrayMax(X)
    IN  [X |-> [i \in 1 .. Len(X) |-> [j \in 1 .. Len(X[i]) |-> TrueDivide(X[i][j], m)]],
         y |-> dataset.targets]

\* load_data(use_fashion): both sets of the collection, each through
\* torch_to_X_y on its own
load_data(disk, use_fashion) ==
    LET files == IF use_fashion THEN disk.fashion ELSE disk.mnist
        tr == torch_to_X_y(files.train)
        te == torch_to_X_y(files.test)
    IN  [X_train |-> tr.X, X_test |-> te.X, y_train |-> tr.y, y_test |-> te.y]

\* row.reshape(28, 28)
ReshapeImage(row) ==
    IF Len(row) = 28 * 28
    THEN [error |-> "", image |-> [r \in 1 .. 28 |-> [c \in 1 .. 28 |-> row[28 * (r - 1) + c]]]]
    ELSE [error |-> "ValueError", image |-> <<>>]

RECURSIVE PlotFrom(_, _, _, _)
\* the loop of plot_images from i on: x[i] (the entry after i others),
\* reshaped, is drawn in subplot i; the first statement that fails ends the
\* call with what has been drawn so far
PlotFrom(x, i, n, shown) ==
    IF i > n
    THEN [error |-> "", shown |-> shown]
    ELSE IF i + 1 > Len(x)
    THEN [error |-> "IndexError", shown |-> shown]
    ELSE LET img == ReshapeImage(x[i + 1])
         IN  IF img.error # ""
             THEN [error |-> img.error, shown |-> shown]
             ELSE PlotFrom(x, i + 1, n,
                           Append(shown, [subplot |-> i, index |-> i, image |-> img.image]))

\* plot_images that starts with the first image
plot_images_from_zero(x) == PlotFrom(x, 0, 9, <<>>)

\* plot_images(x): n = 10; for i in range(1, n+1)
plot_images(x) == PlotFrom(x, 1, 10, <<>>)

NotLoaded(disk) ==
    [disk |-> disk, X_train |-> <<>>, y_train |-> <<>>, X_test |-> <<>>, y_test |-> <<>>]

\* X_train, X_test, y_train, y_test = load_data() or load_data(use_fashion=True)
LoadData ==
    /\ nb = "mnist"
    /\ \E use_fashion \in BOOLEAN :
         LET r == load_data(data.disk, use_fashion)
         IN  data' = [data EXCEPT !.X_train = r.X_train, !.X_test = r.X_test,
                                  !.y_train = r.y_train, !.y_test = r.y_test]
    /\ out' = <<>>
    /\ calls' = <<>>
    /\ raised' = ""
    /\ last' = "load_data"
    /\ UNCHANGED <<nb, rng, ret, prev, between, df_train, df_test, clf>>

\* plot_images(X_train)
PlotImages ==
    /\ nb = "mnist"
    /\ data.X_train # <<>>
    /\ LET r == plot_images(data.X_train)
       IN  /\ out' = r.shown
           /\ raised' = r.error
    /\ calls' = <<>>
    /\ last' = "plot_images"
    /\ UNCHANGED <<nb, rng, ret, prev, between, df_train, df_test, data, clf>>

InitData ==
    /\ nb = "mnist"
    /\ rng = SeedState(28)
    /\ ret = NoCall
    /\ prev = NoCall
    /\ between = FALSE
    /\ df_train = NoTable
    /\ df_test = NoTable
    /\ data \in {NotLoaded(d) : d \in Disks}
    /\ clf = NoClf
    /\ out = <<>>
    /\ calls = <<>>
    /\ raised = ""
    /\ last = "start"

NextData == LoadData \/ PlotImages

DataSpec == InitData /\ [][NextData]_vars

----------------------------------------------------------------------------
(* Properties of the generator, checked under Spec *)

Called == ret.kind # "none"
NineNames == <<"C", "A", "K", "X", "F", "D", "G", "Y", "H">>
Max0(n) == IF n < 0 THEN 0 ELSE n

\* C1: two calls of sample_data with the same integer seed, the same n and
\* the same drift flags return the same outcome (the same table, or the same
\* error), whatever used the process-wide generator before or between them.
C1_Reproducible ==
    (Called /\ prev.kind # "none" /\ ret.args = prev.args)
        => (ret.kind = prev.kind /\ ret.error = prev.error /\ ret.table = prev.table)

\* C1 witness: a table with rows returned a second time for the same
\* arguments after the generator was used in between.
C1_Witness ==
    /\ last = "sample_data" /\ between
    /\ prev.kind = "table" /\ ret.kind = "table"
    /\ ret.args = prev.args /\ ret.args.n > 0

\* C2: for n > 0, any seed (None or an integer numpy accepts) and any drift
\* flags, sample_data returns a table of exactly n rows and the nine columns
\* C, A, K, X, F, D, G, Y, H in this order, every cell holding a number.
C2_Shape ==
    (Called /\ ret.args.n > 0)
        => /\ ret.kind = "table"
           /\ ret.table.columns = NineNames
           /\ Len(ret.table.rows) = ret.args.n
           /\ \A j \in 1 .. Len(ret.table.rows) :
                /\ Len(ret.table.rows[j]) = 9
                /\ \A c \in 1 .. Len(ret.table.rows[j]) : ret.table.rows[j][c] \in Int

\* C2 witness: a two-row table from a call with seed=None and both drifts on.
C2_Witness ==
    /\ ret.kind = "table" /\ ret.args.n = 2 /\ ~ret.args.seed.given
    /\ ret.args.data_drift /\ ret.args.concept_drift

\* C3 as stated: when n is not positive (n = 0 or n < 0) the generator
\* fails with an invalid-argument error and returns no table.
C3_Original ==
    (Called /\ ret.args.n <= 0)
        => (ret.kind = "error" /\ ret.error = "ValueError" /\ ret.table = NoTable)

\* C3 amended: when n is negative the generator fails with ValueError (raised
\* by the first randn) and returns no table; when n = 0 it does not fail and
\* returns a table of zero rows and the nine columns.
C3_Amended ==
    Called =>
        /\ ret.args.n < 0 => (ret.kind = "error" /\ ret.error = "ValueError" /\ ret.table = NoTable)
        /\ ret.args.n = 0 => (ret.kind = "table" /\ ret.error = "" /\ ret.table.rows = <<>>
                              /\ ret.table.columns = NineNames)

\* C3 witness: a call with a negative n has failed and a later call with
\* n = 0 has returned an empty table.
C3_Witness ==
    /\ prev.kind = "error" /\ prev.args.n < 0
    /\ ret.kind = "table" /\ ret.args.n = 0

\* C4: with the drift flags of the latest call, every equation reads only
\* variables assigned by an earlier statement, so no run meets an unassigned
\* name, and the columns of the table are the variables in statement order.
C4_NoForwardReference ==
    Called =>
        LET eqs == Equations(ret.args.data_drift, ret.args.concept_drift)
        IN  /\ \A i \in 1 .. Len(eqs) : \A v \in Reads(eqs[i]) :
                  \E k \in 1 .. (i - 1) : eqs[k].var = v
            /\ ret.error # "NameError"
            /\ ret.kind = "table" =>
                  /\ Len(ret.table.columns) = Len(eqs)
                  /\ \A i \in 1 .. Len(eqs) :
                        /\ ret.table.columns[i] = eqs[i].var
                        /\ StackOrder[i] = eqs[i].var

\* C4 witness: a table with rows built with both drift flags on.
C4_Witness ==
    /\ ret.kind = "table" /\ ret.args.n > 0
    /\ ret.args.data_drift /\ ret.args.concept_drift /\ ret.args.seed.given

DiffersAt(e1, e2) == {i \in 1 .. Len(e1) : e1[i] # e2[i]}
IndexOf(eqs, v) == CHOOSE i \in 1 .. Len(eqs) : eqs[i].var = v

\* C5: with data_drift true exactly the equations of X and H differ from the
\* ones without data drift, and only in their noise scale, which is 10 times
\* the non-drifted one (0.2 -> 2.0 for X, 0.1 -> 1.0 for H).
C5_DataDriftEquations ==
    (Called /\ ret.args.data_drift) =>
        LET on  == Equations(TRUE, ret.args.concept_drift)
            off == Equations(FALSE, ret.args.concept_drift)
            x   == IndexOf(off, "X")
            h   == IndexOf(off, "H")
        IN  /\ Len(on) = Len(off)
            /\ DiffersAt(on, off) = {x, h}
            /\ \A i \in {x, h} :
                  /\ on[i].var = off[i].var
                  /\ on[i].terms = off[i].terms
                  /\ on[i].noise = 10 * off[i].noise
            /\ off[x].noise = 2 /\ on[x].noise = 20
            /\ off[h].noise = 1 /\ on[h].noise = 10

\* C5 witness: a table with rows generated with data_drift on.
C5_Witness ==
    /\ ret.kind = "table" /\ ret.args.n > 0
    /\ ret.args.data_drift /\ ~ret.args.concept_drift

\* C6: with concept_drift true exactly the equation of D differs from the one
\* without concept drift, and only in the sign of its coefficient on X
\* (-2 becomes +2); its noise scale is unchanged.
C6_ConceptDriftEquations ==
    (Called /\ ret.args.concept_drift) =>
        LET on  == Equations(ret.args.data_drift, TRUE)
            off == Equations(ret.args.data_drift, FALSE)
            d   == IndexOf(off, "D")
        IN  /\ Len(on) = Len(off)
            /\ DiffersAt(on, off) = {d}
            /\ on[d].var = "D"
            /\ on[d].noise = off[d].noise
            /\ off[d].terms = <<Term(-20, "X")>>
            /\ on[d].terms = <<Term(20, "X")>>

\* C6 witness: a table with rows generated with concept_drift on.
C6_Witness ==
    /\ ret.kind = "table" /\ ret.args.n > 0
    /\ ret.args.concept_drift /\ ~ret.args.data_drift

\* C8 as stated: a call of sample_data leaves the process-wide generator in
\* the state it found it in.
C8_Original == [][last' = "sample_data" => rng' = rng]_vars

\* C8 amended: a call of sample_data with an integer seed s leaves the
\* process-wide generator in the state reached from seed(s) by the 9*n values
\* it drew (seed(s) itself when n < 0), whatever the state was before the
\* call: the call writes shared state, and reads none that others left.
C8_StateLeftBehind ==
    (last = "sample_data" /\ ret.args.seed.given)
        => rng = Advance(SeedState(ret.args.seed.v), 9 * Max0(ret.args.n))

\* C8 witness: after a call that returned rows the generator is not in the
\* freshly seeded state.
C8_Witness ==
    /\ last = "sample_data" /\ ret.args.seed.given
    /\ ret.kind = "table" /\ ret.args.n > 0
    /\ rng # SeedState(ret.args.seed.v)

----------------------------------------------------------------------------
(* Properties of the evaluation harnesses, checked under EvalSpec *)

Harnesses == {"eval_clf", "test_model", "eval_net"}
Methods(cs) == {cs[i].method : i \in 1 .. Len(cs)}
FitCalls(cs) == {i \in 1 .. Len(cs) : cs[i].method = "fit"}
Numbers == {i \in 1 .. Len(out) : out[i].what # "heading"}
Has(what, on) == \E i \in Numbers : out[i].what = what /\ out[i].on = on

\* C7 as stated: no evaluation harness calls fit; each only calls score and
\* predict on its model.
C7_Original ==
    last \in Harnesses => Methods(calls) \subseteq {"score", "predict"}

\* C7 amended: eval_clf calls only score and predict and leaves the
\* classifier and the four arrays as they were; test_model and eval_net each
\* call fit exactly once, first, on the training data of a model they build
\* themselves, and leave the tables / arrays they are given as they were.
C7_ReadOnly ==
    [][ /\ last' = "eval_clf" =>
              /\ Methods(calls') \subseteq {"score", "predict"}
              /\ clf' = clf
              /\ data' = data
        /\ last' = "test_model" =>
              /\ FitCalls(calls') = {1}
              /\ calls'[1] = Call("fit", "train")
              /\ df_train' = df_train /\ df_test' = df_test
        /\ last' = "eval_net" =>
              /\ FitCalls(calls') = {1}
              /\ calls'[1] = Call("fit", "train")
              /\ clf'.nfit = 1
              /\ data' = data ]_vars

\* C7 witness: eval_clf has run on a classifier fitted once on three rows.
C7_Witness ==
    /\ last = "eval_clf" /\ Len(calls) = 4
    /\ clf.nfit = 1 /\ Len(data.y_train) = 3

ConstantBalanced(y, m) == IF m \in ClassesOf(y) THEN Rat(1, Cardinality(ClassesOf(y))) ELSE Rat(0, 1)

C10_Original ==
    last \in Harnesses => \A i \in Numbers : Len(out[i].num.frac) = 3

\* the value printed, in thousandths
Thousandths(num) == (num.int * 100 + num.frac[1] * 10 + num.frac[2]) * 10 + num.frac[3]

\* C10 amended: every number eval_clf and test_model report has exactly 3
\* digits after the decimal point (and the training accuracy printed by
\* eval_clf is within half a thousandth of the accuracy); the test accuracy
\* eval_net prints is the plain float text, of 1 to 16 digits after the point.
C10_Digits ==
    /\ last \in {"eval_clf", "test_model"} =>
          /\ Numbers = 1 .. Len(out)
          /\ \A i \in Numbers : Len(out[i].num.frac) = 3
    /\ last = "eval_clf" =>
          LET k == Count(data.y_train, clf.majority)
              n == Len(data.y_train)
              d == Thousandths(out[1].num) * n - 1000 * k
          IN  2 * d <= n /\ 2 * (0 - d) <= n
    /\ last = "eval_net" =>
          \A i \in Numbers :
              /\ Len(out[i].num.frac) \in 1 .. ReprDigits
              /\ \E k \in 0 .. Len(data.y_test) : out[i].num = ReprFloat(Rat(k, Len(data.y_test)))

\* C10 witness: test_model has printed five numbers, a negative one among them.
C10_Witness ==
    /\ last = "test_model" /\ Len(out) = 5
    /\ out[2].num = [neg |-> TRUE, int |-> 0, frac |-> <<3, 3, 3>>]
    /\ out[4].num = [neg |-> FALSE, int |-> 2, frac |-> <<5, 0, 0>>]

----------------------------------------------------------------------------
(* Properties of eval_clf on any model and arrays, checked under CallSpec *)

\* the features and the labels of a split have the same number of rows
Agree(on) ==
    IF on = "train" THEN Len(data.X_train) = Len(data.y_train)
    ELSE Len(data.X_test) = Len(data.y_test)

\* a trained classifier: fitted, with score and predict, neither raising
Trained == clf.fitted /\ {"score", "predict"} \subseteq Attrs(clf) /\ Raises(clf) = {}

\* the methods eval_clf needs that the model does not have
Lacks == {"score", "predict"} \ Attrs(clf)

NoRepeat(cs) == \A i \in 1 .. Len(cs) : \A j \in 1 .. Len(cs) : cs[i] = cs[j] => i = j

\* C11: when the features and the labels of the train pair or of the test
\* pair differ in their number of rows, eval_clf fails; no number it has
\* printed is computed on a pair that disagrees; and for a trained classifier
\* the error is the library's shape-mismatch ValueError: raised by the first
\* statement (nothing printed) when the train pair disagrees, by the second
\* (after the training accuracy over all training rows) when only the test
\* pair does.
C11_ShapeMismatch ==
    last = "eval_clf" =>
        /\ (~Agree("train") \/ ~Agree("test")) => raised # ""
        /\ \A i \in 1 .. Len(out) : Agree(out[i].on)
        /\ (Trained /\ ~Agree("train")) => (raised = "ValueError" /\ out = <<>>)
        /\ (Trained /\ Agree("train") /\ ~Agree("test")) =>
              /\ raised = "ValueError"
              /\ out = <<Item("accuracy", "train",
                              FormatFixed(Rat(Count(data.y_train, clf.majority),
                                              Len(data.y_train)), 3))>>

\* C11 witness: a trained classifier, a train pair that agrees and a test
\* pair that does not: ValueError after one line.
C11_Witness ==
    /\ last = "eval_clf" /\ Trained /\ clf.kind = "DummyClassifier"
    /\ Agree("train") /\ ~Agree("test")
    /\ raised = "ValueError" /\ Len(out) = 1

\* C12: when the model lacks score or predict, eval_clf fails and the error
\* reaches the caller from the first statement that fails: that statement is
\* the last thing done, nothing is printed for it or after it, no call is
\* made twice; and when the arrays agree the error is the AttributeError of
\* the first statement that needs the missing method.
C12_MissingCapability ==
    (last = "eval_clf" /\ Lacks # {}) =>
        /\ raised # ""
        /\ Len(calls) >= 1 /\ Len(out) = Len(calls) - 1 /\ Len(out) < 4
        /\ NoRepeat(calls)
        /\ (Agree("train") /\ Agree("test")) =>
              /\ raised = "AttributeError"
              /\ calls[Len(calls)].method \in Lacks
              /\ \A i \in 1 .. (Len(calls) - 1) : calls[i].method \notin Lacks

\* C12 witness: a model with score and without predict, arrays that agree:
\* AttributeError at the third statement.
C12_Witness ==
    /\ last = "eval_clf" /\ Lacks = {"predict"}
    /\ Agree("train") /\ Agree("test")
    /\ raised = "AttributeError" /\ Len(calls) = 3

----------------------------------------------------------------------------
(* Properties of sample_data with any objects as flags, checked under FlagSpec *)

\* C13 as stated: when a drift flag is not a boolean, sample_data fails and
\* returns no table.
C13_Original ==
    (Called /\ (ret.args.data_drift.type # "bool" \/ ret.args.concept_drift.type # "bool"))
        => (ret.kind = "error" /\ ret.table = NoTable)

\* C13 amended: sample_data does not check the type of a drift flag.  With
\* n >= 0 and flags that have a truth value it returns a table, the one the
\* same call returns with the flags replaced by the booleans of their truth
\* values; it fails (ValueError, raised by the if statement) only for a flag
\* that has no truth value.
C13_TruthValue ==
    (Called /\ ret.args.n >= 0) =>
        LET dd == ret.args.data_drift
            cd == ret.args.concept_drift
        IN  /\ (HasTruth(dd) /\ HasTruth(cd)) =>
                  /\ ret.kind = "table" /\ ret.error = ""
                  /\ Len(ret.table.rows) = ret.args.n
                  /\ ret.args.seed.given =>
                        ret.table = Body[SeedState(ret.args.seed.v), ret.args.n,
                                         (dd.type = "bool" /\ dd.v = 1) \/ (dd.type \in {"int", "str"} /\ dd.v # 0),
                                         (cd.type = "bool" /\ cd.v = 1) \/ (cd.type \in {"int", "str"} /\ cd.v # 0)].table
            /\ (~HasTruth(dd) \/ ~HasTruth(cd)) =>
                  (ret.kind = "error" /\ ret.error = "ValueError" /\ ret.table = NoTable)

\* C13 witness: a table with rows returned for data_drift='False' (a string)
\* and concept_drift=None.
C13_Witness ==
    /\ ret.kind = "table" /\ ret.args.n > 0
    /\ ret.args.data_drift = PyStr(5) /\ ret.args.concept_drift = PyNone

----------------------------------------------------------------------------
(* Properties of pairs of generated tables, checked under Spec *)

\* column `name` of a table, as the sequence of its values
Col(t, name) ==
    [j \in 1 .. Len(t.rows) |-> t.rows[j][CHOOSE k \in 1 .. Len(t.columns) : t.columns[k] = name]]

RECURSIVE SumSeq(_)
SumSeq(x) == IF x = <<>> THEN 0 ELSE Head(x) + SumSeq(Tail(x))

Prod(x, y) == [j \in 1 .. Len(x) |-> x[j] * y[j]]

\* n^2 times the sample covariance and the sample variance (n values)
CovN2(x, y) == Len(x) * SumSeq(Prod(x, y)) - SumSeq(x) * SumSeq(y)
VarN2(x) == CovN2(x, x)

\* prev and ret are tables of two calls with the same integer seed and the
\* same n
SameStream ==
    /\ prev.kind = "table" /\ ret.kind = "table"
    /\ ret.args.seed.given /\ ret.args.seed = prev.args.seed
    /\ ret.args.n = prev.args.n

\* ... that differ in data_drift only: prev without, ret with
DataDriftPair ==
    /\ SameStream
    /\ ~prev.args.data_drift /\ ret.args.data_drift
    /\ ret.args.concept_drift = prev.args.concept_drift

\* ... that differ in concept_drift only: prev without, ret with
ConceptDriftPair ==
    /\ SameStream
    /\ ~prev.args.concept_drift /\ ret.args.concept_drift
    /\ ret.args.data_drift = prev.args.data_drift

\* C14 as stated: for every seed and n, the table with data_drift has a
\* strictly larger sample variance of X and of H than the table without.
C14_Original ==
    DataDriftPair =>
        /\ VarN2(Col(ret.table, "X")) > VarN2(Col(prev.table, "X"))
        /\ VarN2(Col(ret.table, "H")) > VarN2(Col(prev.table, "H"))

\* C14 amended: with the same seed, n and concept_drift, data_drift makes
\* the noise part of X (X - (C - 2*A)) and of H (H - 0.5*Y) ten times the one
\* without, row by row, and changes neither C nor A.  So the variance of X is
\* strictly larger exactly when 99*Var(d) + 18*Cov(C - 2*A, d) > 0, d being
\* the noise part without drift: never for n <= 1, where all variances are 0.
C14_NoiseTenfold ==
    DataDriftPair =>
        LET off == prev.table
            on  == ret.table
            n   == Len(off.rows)
            B   == [j \in 1 .. n |-> Col(off, "C")[j] - 2 * Col(off, "A")[j]]
            d   == [j \in 1 .. n |-> Col(off, "X")[j] - B[j]]
        IN  /\ Len(on.rows) = n
            /\ Col(on, "C") = Col(off, "C") /\ Col(on, "A") = Col(off, "A")
            /\ \A j \in 1 .. n :
                  /\ Col(on, "X")[j] - B[j] = 10 * d[j]
                  /\ 2 * Col(on, "H")[j] - Col(on, "Y")[j]
                        = 10 * (2 * Col(off, "H")[j] - Col(off, "Y")[j])
            /\ (VarN2(Col(on, "X")) > VarN2(Col(off, "X")))
                  <=> (99 * VarN2(d) + 18 * CovN2(B, d) > 0)
            /\ n <= 1 => /\ VarN2(Col(on, "X")) = 0 /\ VarN2(Col(off, "X")) = 0
                         /\ VarN2(Col(on, "H")) = 0 /\ VarN2(Col(off, "H")) = 0

\* C14 witness: a pair of two-row tables where data_drift did make the
\* variance of X and of H strictly larger.
C14_Witness ==
    /\ DataDriftPair /\ ret.args.n = 2
    /\ VarN2(Col(ret.table, "X")) > VarN2(Col(prev.table, "X"))
    /\ VarN2(Col(ret.table, "H")) > VarN2(Col(prev.table, "H"))

\* C15 as stated: for every seed and n, the sample correlation of X and Y
\* has opposite signs with and without concept_drift.
C15_Original ==
    ConceptDriftPair =>
        CovN2(Col(ret.table, "X"), Col(ret.table, "Y"))
            * CovN2(Col(prev.table, "X"), Col(prev.table, "Y")) < 0

\* C15 amended: with the same seed, n and data_drift, concept_drift leaves X
\* as it is and lowers Y by 4*X row by row, so the covariance of X and Y drops
\* by exactly 4*Var(X).  Its sign flips (from positive to negative) exactly
\* when 0 < Cov(X, Y) < 4*Var(X) without drift: never for n <= 1, where both
\* covariances are 0.
C15_CovarianceShift ==
    ConceptDriftPair =>
        LET off  == prev.table
            on   == ret.table
            n    == Len(off.rows)
            X    == Col(off, "X")
            coff == CovN2(X, Col(off, "Y"))
            con  == CovN2(Col(on, "X"), Col(on, "Y"))
        IN  /\ Len(on.rows) = n
            /\ Col(on, "X") = X
            /\ \A j \in 1 .. n : Col(off, "Y")[j] - Col(on, "Y")[j] = 4 * X[j]
            /\ coff - con = 4 * VarN2(X)
            /\ (coff * con < 0) <=> (0 < coff /\ coff < 4 * VarN2(X))
            /\ n <= 1 => (coff = 0 /\ con = 0)

\* C15 witness: a pair of two-row tables where concept_drift did flip the
\* sign of the covariance of X and Y from positive to negative.
C15_Witness ==
    /\ ConceptDriftPair /\ ret.args.n = 2
    /\ CovN2(Col(prev.table, "X"), Col(prev.table, "Y")) > 0
    /\ CovN2(Col(ret.table, "X"), Col(ret.table, "Y")) < 0

\* the k-th vector of n values drawn after np.random.seed(s)
Draws(s, n, k) == DrawSeq(Advance(SeedState(s), (k - 1) * n), n)

\* the latest call returned a table and had an integer seed
SeededTable == ret.kind = "table" /\ ret.args.seed.given

\* C16: in every generated table, with eD and eY the vectors drawn for the
\* noise of D and of Y, Y = 2*K + 2*X - 0.5*eD + 0.2*eY when concept_drift is
\* false and Y = 2*K - 2*X - 0.5*eD + 0.2*eY when it is true, in both cases
\* whether data_drift is true or false.
C16_LabelRelation ==
    SeededTable =>
        LET t    == ret.table
            n    == ret.args.n
            eD   == Draws(ret.args.seed.v, n, 6)
            eY   == Draws(ret.args.seed.v, n, 8)
            sign == IF ret.args.concept_drift THEN 0 - 1 ELSE 1
        IN  \A j \in 1 .. n :
                10 * Col(t, "Y")[j]
                    = 20 * Col(t, "K")[j] + sign * 20 * Col(t, "X")[j]
                      - 5 * eD[j] * Unit + 2 * eY[j] * Unit

\* C16 witness: a table with rows generated with data_drift on and
\* concept_drift off, X not zero in its first row.
C16_Witness ==
    /\ SeededTable /\ ret.args.n > 0
    /\ ret.args.data_drift /\ ~ret.args.concept_drift
    /\ Col(ret.table, "X")[1] # 0

\* C18: after seeding, sample_data draws nine vectors of n values, used in
\* this order as C, the noise of A, K, X, F, D, G, Y, H, whatever the flags:
\* the generator ends 9*n values after the seed, and in the table each
\* variable minus its linear part is its scale times its own vector.  So for
\* the same seed and n, C, A and K are the same whatever the flags, and X
\* and F are the same when data_drift is the same.
C18_DrawOrder ==
    /\ SeededTable =>
          LET t  == ret.table
              n  == ret.args.n
              s  == ret.args.seed.v
              sx == IF ret.args.data_drift THEN 20 ELSE 2
              sh == IF ret.args.data_drift THEN 10 ELSE 1
              cd == IF ret.args.concept_drift THEN 2 ELSE 0 - 2
              V(name, j) == 10 * Col(t, name)[j]
              E(k, j) == Draws(s, n, k)[j] * Unit
          IN  /\ last = "sample_data" => rng = Advance(SeedState(s), 9 * n)
              /\ \A j \in 1 .. n :
                    /\ V("C", j) = 10 * E(1, j)
                    /\ V("A", j) = 8 * E(2, j)
                    /\ V("K", j) - V("A", j) = E(3, j)
                    /\ V("X", j) - (V("C", j) - 2 * V("A", j)) = sx * E(4, j)
                    /\ V("F", j) - 3 * V("X", j) = 8 * E(5, j)
                    /\ V("D", j) - cd * V("X", j) = 5 * E(6, j)
                    /\ V("G", j) - V("D", j) = 5 * E(7, j)
                    /\ V("Y", j) - (2 * V("K", j) - V("D", j)) = 2 * E(8, j)
                    /\ 2 * V("H", j) - V("Y", j) = 2 * sh * E(9, j)
    /\ SameStream =>
          /\ \A name \in {"C", "A", "K"} : Col(ret.table, name) = Col(prev.table, name)
          /\ ret.args.data_drift = prev.args.data_drift =>
                \A name \in {"X", "F"} : Col(ret.table, name) = Col(prev.table, name)

\* C18 witness: two tables with rows for the same seed and n that differ in
\* concept_drift only, and so in column D.
C18_Witness ==
    /\ SameStream /\ ret.args.n > 0 /\ last = "sample_data"
    /\ ret.args.data_drift = prev.args.data_drift
    /\ ret.args.concept_drift # prev.args.concept_drift
    /\ Col(ret.table, "D") # Col(prev.table, "D")

----------------------------------------------------------------------------
(* Properties of the network modules, checked under NetSpec *)

\* C17: LinNN with its default sizes is a single linear layer with bias from
\* 784 inputs to 10 outputs, and has 784*10 + 10 = 7850 trainable parameters;
\* the logistic regression with intercept fitted on 784 features and 10
\* classes has as many (a 10 x 784 coef_ and 10 intercepts).
C17_SameParameters ==
    /\ (clf.kind = "LinNN" /\ clf.kwargs = [n_in |-> 784, n_out |-> 10]) =>
          /\ Len(clf.layers) = 1
          /\ clf.layers[1].type = "Linear" /\ clf.layers[1].bias
          /\ ParamCount(clf.layers) = 784 * 10 + 10
          /\ ParamCount(clf.layers) = 7850
          /\ ParamCount(clf.layers) = LogRegParamCount(LogisticRegressionFit(784, 10))
    /\ (clf.kind = "LogisticRegression" /\ data.n_features = 784 /\ data.n_classes = 10) =>
          /\ clf.coef_shape = <<10, 784>> /\ clf.intercept_shape = <<10>>
          /\ LogRegParamCount(clf) = 7850

\* C17 witness: LinNN built with its default sizes in the notebook that has
\* MNIST loaded.
C17_Witness ==
    /\ last = "build_net" /\ clf.kind = "LinNN"
    /\ clf.layers = <<Linear(784, 10)>>
    /\ data = [n_features |-> 784, n_classes |-> 10]

----------------------------------------------------------------------------
(* Properties of test_model, checked under EvalSpec *)

\* C20: test_model fits one new linear model, once, on the rows of df_train:
\* the features are the columns named in input_vars, in that order, the label
\* is column Y; df_test is only scored on; and after the two R^2 values the
\* report holds the intercept and then one coefficient per name of
\* input_vars, in the order of input_vars, the i-th coefficient of the model
\* next to the i-th name.
C20_FitOnTrain ==
    last = "test_model" =>
        LET input_vars == clf.fit_X.columns
            k == Len(input_vars)
        IN  /\ clf.kind = "LinearRegression" /\ clf.nfit = 1
            /\ k >= 1
            /\ Len(clf.fit_X.rows) = Len(df_train.rows)
            /\ Len(clf.fit_y.rows) = Len(df_train.rows)
            /\ clf.fit_y.columns = <<"Y">>
            /\ \A j \in 1 .. Len(df_train.rows) :
                  /\ clf.fit_y.rows[j] = <<Col(df_train, "Y")[j]>>
                  /\ Len(clf.fit_X.rows[j]) = k
                  /\ \A c \in 1 .. k : clf.fit_X.rows[j][c] = Col(df_train, input_vars[c])[j]
            /\ calls = <<Call("fit", "train"), Call("score", "train"), Call("score", "test")>>
            /\ Len(out) = 3 + k
            /\ out[3] = Item("intercept", "", FormatFixed(clf.intercept, 3))
            /\ \A i \in 1 .. k : out[3 + i] = Item("coef", input_vars[i], FormatFixed(clf.coef[i], 3))

\* C20 witness: test_model has run with two input variables on a training
\* table that differs from the test table, and has printed two different
\* coefficients next to X and K.
C20_Witness ==
    /\ last = "test_model" /\ clf.fit_X.columns = <<"X", "K">>
    /\ df_train # df_test /\ Select(df_train, <<"X", "Y">>) # Select(df_test, <<"X", "Y">>)
    /\ out[4].on = "X" /\ out[5].on = "K" /\ out[4].num # out[5].num

----------------------------------------------------------------------------
(* Properties of the feature cell, checked under SplitSpec *)

\* the positions in the table of the columns whose name starts with s, m, a, r, t
SmartPositions ==
    {k \in 1 .. Len(data.df.columns) :
        /\ Len(data.df.columns[k]) >= 5
        /\ data.df.columns[k][1] = "s" /\ data.df.columns[k][2] = "m"
        /\ data.df.columns[k][3] = "a" /\ data.df.columns[k][4] = "r"
        /\ data.df.columns[k][5] = "t"}

\* C21: after the feature cell, feat_cols holds exactly the columns of the
\* table whose name starts with "smart", in table order; the column
\* "failure" is not among them; X holds these columns and y the column
\* "failure", row by row; and when the split succeeds, train and test
\* together are the rows of X in some order with, at every position, the
\* label of that same row.
C21_FeaturesAndLabels ==
    last = "feature_cell" =>
        LET df   == data.df
            n    == Len(df.rows)
            feat == data.feat_cols
            pos  == [i \in 1 .. Len(feat) |->
                        CHOOSE k \in 1 .. Len(df.columns) : df.columns[k] = feat[i]]
            lab  == CHOOSE k \in 1 .. Len(df.columns) :
                        df.columns[k] = <<"f", "a", "i", "l", "u", "r", "e">>
        IN  /\ \A i \in 1 .. Len(feat) : \E k \in SmartPositions : df.columns[k] = feat[i]
            /\ {pos[i] : i \in 1 .. Len(feat)} = SmartPositions
            /\ \A i \in 1 .. Len(feat) : \A j \in 1 .. Len(feat) : i < j => pos[i] < pos[j]
            /\ lab \notin SmartPositions
            /\ Len(data.X) = n /\ Len(data.y) = n
            /\ \A j \in 1 .. n :
                  /\ data.y[j] = df.rows[j][lab]
                  /\ data.X[j] = [i \in 1 .. Len(feat) |-> df.rows[j][pos[i]]]
            /\ raised = "" =>
                  /\ Len(data.X_train) = Len(data.y_train)
                  /\ Len(data.X_test) = Len(data.y_test)
                  /\ Len(data.X_train) >= 1 /\ Len(data.X_test) >= 1
                  /\ \E p \in Perms(n) :
                        /\ data.X_test \o data.X_train = [i \in 1 .. n |-> data.X[p[i]]]
                        /\ data.y_test \o data.y_train = [i \in 1 .. n |-> data.y[p[i]]]

\* C21 witness: a table of three drives with mixed labels whose columns are
\* smart_9, failure, smart_1, split with the rows out of their first order.
C21_Witness ==
    /\ last = "feature_cell" /\ raised = ""
    /\ data.feat_cols = <<Smart9, Smart1>>
    /\ Len(data.y) = 3 /\ data.y[1] # data.y[3]
    /\ data.X_test = <<data.X[3]>>
    /\ data.y_train = <<data.y[2], data.y[1]>>

----------------------------------------------------------------------------
(* Properties of the forward passes, checked under NetSpec *)

\* the module was built with the sizes its constructor has by default
DefaultSizes ==
    \/ clf.kind = "LinNN" /\ clf.kwargs = [n_in |-> 784, n_out |-> 10]
    \/ /\ clf.kind \in {"FFNN", "MyNeuralNet"}
       /\ clf.kwargs = [n_in |-> 784, n_hl1 |-> 512, n_hl2 |-> 256, n_out |-> 10]
    \/ clf.kind = "CNN"

\* C22: when MyNeuralNet, LinNN, FFNN or CNN, built with its default sizes,
\* is applied to N samples of 784 features handed over as the loops do
\* (N x 784, reshaped to N x 1 x 28 x 28 for the CNN), no statement fails;
\* every statement receives the shape the one before returned; every linear
\* layer finds its n_in in the last dimension and every convolution its
\* in_channels in dimension 1; the result is N x 10; the reshape keeps N; and
\* in the CNN the two convolutions give 26 x 26 and 24 x 24, the pooling
\* 12 x 12, and the flattened 64*12*12 = 9216 values are the n_in of fc1.
C22_ShapesAgree ==
    (last = "forward" /\ data.n_features = 784 /\ DefaultSizes) =>
        LET N == out[1].input[1]
            fed == IF clf.kind = "CNN" THEN <<N, 1, 28, 28>> ELSE <<N, 784>>
            first == IF clf.kind = "CNN" THEN 2 ELSE 1
        IN  /\ raised = ""
            /\ Len(out) = Len(Forward(clf.kind, clf.layers)) + first - 1
            /\ out[1].input = <<N, 784>>
            /\ out[first].input = fed
            /\ \A i \in 2 .. Len(out) : out[i].input = out[i - 1].output
            /\ \A i \in first .. Len(out) :
                  /\ out[i].layer = Forward(clf.kind, clf.layers)[i - first + 1]
                  /\ out[i].layer.type = "Linear" =>
                        out[i].layer.n_in = out[i].input[Len(out[i].input)]
                  /\ out[i].layer.type = "Conv2d" =>
                        out[i].layer.n_in = out[i].input[2]
            /\ out[Len(out)].output = <<N, 10>>
            /\ clf.kind = "CNN" =>
                  /\ out[2].output = <<N, 32, 26, 26>>
                  /\ out[4].output = <<N, 64, 24, 24>>
                  /\ out[6].output = <<N, 64, 12, 12>>
                  /\ out[8].layer.type = "flatten"
                  /\ out[8].output = <<N, 64 * 12 * 12>>
                  /\ out[8].output = <<N, 9216>>
                  /\ out[9].layer = clf.layers[5]
                  /\ out[9].layer.n_in = 9216

\* C22 witness: the CNN applied to two samples of 784 features, run to its
\* last statement.
C22_Witness ==
    /\ last = "forward" /\ clf.kind = "CNN" /\ raised = ""
    /\ data.n_features = 784
    /\ Len(out) = 13
    /\ out[1].input = <<2, 784>>
    /\ out[13].output = <<2, 10>>

----------------------------------------------------------------------------
(* Properties of the comparison loops, checked under LoopSpec *)

\* the statements the j-th pass of the running loop has run
PassEvents(j) == [m \in 1 .. 6 |-> calls[6 * (j - 1) + m]]

\* C23: before the first loop nothing has run; in a comparison loop the
\* passes done so far are those for LinNN,
\* FFNN, CNN in this order, and each pass ran, in this order: the heading, a
\* new wrapper for its module that is not fitted and has trained for no
\* epoch, fit on X_train and y_train (X_train as images for the CNN), predict
\* on X_test, the print of the accuracy against y_test, the return of the
\* wrapper.  fit never receives X_test; the wrapper returned has been fitted
\* exactly once, for the max_epochs of this loop, so nothing trained in an
\* earlier pass is in it; net is bound to the wrapper returned last.
C23_FreshFitPredictPrint ==
    LET k == IF last = "start" THEN 0 ELSE ret.i - 1
        n == Len(data.y_train)
    IN  /\ ret.i \in 1 .. 4
        /\ Len(calls) = 6 * k
        /\ Len(out) = 2 * k
        /\ \A j \in 1 .. k :
              LET e == PassEvents(j)
                  net_module == <<"LinNN", "FFNN", "CNN">>[j]
              IN  /\ [m \in 1 .. 6 |-> e[m].stmt]
                        = <<"print", "NeuralNetClassifier", "fit", "predict",
                            "print accuracy", "return">>
                  /\ e[2].net.kind = net_module
                  /\ ~e[2].net.fitted /\ e[2].net.nfit = 0 /\ e[2].net.epochs = 0
                  /\ e[2].net.max_epochs = ret.max_epochs
                  /\ e[3].X.name = "X_train" /\ e[3].y = data.y_train
                  /\ e[3].X.shape = IF j = 3 THEN <<n, 1, 28, 28>> ELSE <<n, 784>>
                  /\ e[4].X.name = "X_test"
                  /\ e[4].X.shape[1] = Len(data.y_test)
                  /\ e[5].y = data.y_test
                  /\ \A m \in 1 .. 6 : e[m].stmt = "fit" => e[m].X.name # "X_test"
                  /\ e[6].net.kind = net_module
                  /\ e[6].net.fitted /\ e[6].net.nfit = 1
                  /\ e[6].net.epochs = ret.max_epochs
                  /\ out[2 * j - 1] = Heading(net_module)
                  /\ out[2 * j].what = "accuracy" /\ out[2 * j].on = "test"
        /\ (k >= 1 /\ last = "eval_net") => clf = calls[6 * k].net

\* C23 witness: the loop with max_epochs = 15 has finished its third pass,
\* after an earlier loop had left a trained CNN behind.
C23_Witness ==
    /\ last = "eval_net" /\ ret.i = 4 /\ ret.max_epochs = 15
    /\ clf.kind = "CNN" /\ clf.epochs = 15 /\ clf.nfit = 1
    /\ Len(data.y_train) = 2
    /\ calls[2].net.kind = "LinNN" /\ calls[8].net.kind = "FFNN"
    /\ calls[15].stmt = "fit" /\ calls[15].X = [name |-> "X_train", shape |-> <<2, 1, 28, 28>>]
    /\ calls[16].stmt = "predict" /\ calls[16].X.name = "X_test"

----------------------------------------------------------------------------
(* Properties of load_data and plot_images, checked under DataSpec *)

\* every entry of X is a number from 0 to 1
InUnitInterval(X) ==
    \A i \in 1 .. Len(X) : \A j \in 1 .. Len(X[i]) :
        X[i][j][2] > 0 /\ 0 <= X[i][j][1] /\ X[i][j][1] <= X[i][j][2]

\* X and y are what torch_to_X_y has to return for the dataset ds
ScaledFrom(ds, X, y) ==
    LET N == Len(ds.data)
        H == Len(ds.data[1])
        W == Len(ds.data[1][1])
        nonzero == \E i \in 1 .. N : \E r \in 1 .. H : \E c \in 1 .. W : ds.data[i][r][c] # 0
    IN  /\ Len(X) = N
        /\ \A i \in 1 .. N : Len(X[i]) = H * W
        /\ (H = 28 /\ W = 28) => \A i \in 1 .. N : Len(X[i]) = 784
        /\ Len(y) = N
        /\ \A i \in 1 .. N : y[i] = ds.targets[i]
        /\ \A i \in 1 .. N : \A r \in 1 .. H : \A c \in 1 .. W :
              X[i][W * (r - 1) + c][1] = ds.data[i][r][c]
        /\ nonzero =>
              /\ InUnitInterval(X)
              /\ \E i \in 1 .. N : \E j \in 1 .. H * W : X[i][j][1] = X[i][j][2]
        /\ ~nonzero =>
              /\ \A i \in 1 .. N : \A j \in 1 .. H * W : IsNaN(X[i][j])
              /\ ~InUnitInterval(X)

\* C24: after load_data, for the train and for the test set of the
\* collection loaded: the feature array has one row per image and one
\* column per pixel (784 for 28 x 28 images), row i holding the pixels of
\* image i row after row; the labels are the N targets in the same order;
\* when some pixel is not 0 every value lies in [0, 1] and some value is
\* exactly 1, in each of the two arrays on its own; when every pixel is 0
\* every value is nan (0/0), not a number in [0, 1].
C24_ScaledByOwnMaximum ==
    last = "load_data" =>
        \E files \in {data.disk.mnist, data.disk.fashion} :
            /\ ScaledFrom(files.train, data.X_train, data.y_train)
            /\ ScaledFrom(files.test, data.X_test, data.y_test)

\* C24 witness: eleven 28 x 28 images whose largest pixel is 255 as train
\* set, two whose largest pixel is 128 as test set: both arrays hold a 1.
C24_Witness ==
    /\ last = "load_data"
    /\ Len(data.X_train) = 11 /\ Len(data.X_train[1]) = 784
    /\ Len(data.y_train) = 11
    /\ data.X_train[1][1] = <<255, 255>>
    /\ data.X_test[1][1] = <<128, 128>>
    /\ data.X_test[1][29] = <<0, 128>>

\* C25: plot_images(x) on rows of 784 values: with eleven rows or more it
\* draws ten images, subplot k showing x[k] for k = 1..10 (the row after k
\* others), so x[0] is never drawn; with fewer than eleven rows it raises
\* IndexError, after having drawn x[1] to the last row there is.
C25_TenImagesFromOne ==
    (last = "plot_images" /\ Len(data.X_train[1]) = 784) =>
        LET x == data.X_train
        IN  /\ \A k \in 1 .. Len(out) :
                  /\ out[k].subplot = k /\ out[k].index = k /\ out[k].index # 0
                  /\ \A r \in 1 .. 28 : \A c \in 1 .. 28 :
                        out[k].image[r][c] = x[k + 1][28 * (r - 1) + c]
            /\ Len(x) >= 11 => raised = "" /\ Len(out) = 10
            /\ Len(x) < 11 => raised = "IndexError" /\ Len(out) = Len(x) - 1

\* C25 witness: eleven different images are loaded and ten are drawn, the
\* last one being x[10].
C25_Witness ==
    /\ last = "plot_images" /\ raised = ""
    /\ Len(data.X_train) = 11 /\ Len(data.X_train[1]) = 784
    /\ Len(out) = 10 /\ out[10].index = 10
    /\ out[1].image[1][1] # out[2].image[1][1]
    /\ out[1].image[1][1] = data.X_train[2][1]
    /\ out[1].image[1][1] # data.X_train[1][1]

====
